---- MODULE Spec2Model ----
(***************************************************************************)
(* Subscription manager of embed-api/profile-store.mjs (the version with   *)
(* the polling fallback, lines 435-927): the registry of live Y.js         *)
(* subscriptions ("Replicas"), the disk cache, getProfile, subscribe and   *)
(* the timers and provider events that drive them.                         *)
(*                                                                         *)
(* JavaScript runs one callback at a time, so every action below is one    *)
(* callback run to its end (or to its next await).  A continuation that    *)
(* sits in the microtask queue runs before any timer or network callback:  *)
(* MacroEnabled states that.                                               *)
(*                                                                         *)
(* Time: `now` is Date.now().  It advances in steps of ClockStep; the 10 s *)
(* timers (ready timeout, poll interval) are shorter than one step, so     *)
(* they fire between two readings of the clock, and a pending ready        *)
(* timeout fires before the clock advances.  The idle timer (10 min) and   *)
(* the cache TTL (5 min) are compared with `now` as the code does.         *)
(***************************************************************************)
EXTENDS Integers, Sequences, FiniteSets, TLC

\* ---------------------------------------------------------------- bounds
MaxApi == 3
MaxSubs == 3
MaxAdvances == 1
MaxWrites == 1

\* ------------------------------------------------------ program constants
CACHE_TTL_MS == 5 * 60 * 1000
SUBSCRIPTION_IDLE_TIMEOUT_MS == 10 * 60 * 1000
POLL_INTERVAL_MS == 10 * 1000
READY_TIMEOUT_MS == 10000
FETCH_TIMEOUT_MS == 8000
ROOM_PREFIX == <<"p", "r", "o", "f", "i", "l", "e", "-">>

\* One step of the clock, and the timers that run out within one step.
ClockStep == SUBSCRIPTION_IDLE_TIMEOUT_MS
ShortTimers == {READY_TIMEOUT_MS, FETCH_TIMEOUT_MS, POLL_INTERVAL_MS}
MaxNow == MaxAdvances * ClockStep

\* ------------------------------------------------------------- universes
Null == "null"
Relays == {"A", "B"}
Docs == {"P0", "P1", "P2"}
Calls == 1..MaxApi
SubIds == 1..MaxSubs
Listeners == 1..MaxApi
ProfileIds == {<<"x">>, ROOM_PREFIX \o <<"x">>}
UrlLists == {<<>>, <<"B">>, <<"B", "A">>}
NoTimer == 0 - 1
NoRoom == <<>>

\* JS truthiness of a profile value: an object is truthy, null is not.
Truthy(v) == v # Null

\* ------------------------------------------------ strings and room names
StartsWith(s, p) ==
    /\ Len(s) >= Len(p)
    /\ SubSeq(s, 1, Len(p)) = p

\* Ids of at most MaxIdLen characters, through at most MaxOps conversions.
MaxIdLen == 3
MaxOps == 3

\* Variant that prefixes whatever it is given; C24 does not hold of it.
toRoomIdAlwaysPrefix(profileId) == ROOM_PREFIX \o profileId

toRoomId(profileId) ==
    IF StartsWith(profileId, ROOM_PREFIX) THEN profileId ELSE ROOM_PREFIX \o profileId

toProfileId(input) ==
    IF StartsWith(input, ROOM_PREFIX)
    THEN SubSeq(input, Len(ROOM_PREFIX) + 1, Len(input))
    ELSE input

Rooms == {toRoomId(p) : p \in ProfileIds}

\* ------------------------------------------- the serialized profile field
\* The value under PROFILE_KEY of the Y.Map 'profile': unset, a JSON text,
\* or a text that is no JSON.
RawUndefined == <<"undefined">>
RawBad == <<"text", "{">>
JSONstringify(v) == <<"json", v>>
JSONparses(raw) == raw[1] = "json"
JSONparse(raw) == raw[2]
RawValues == {RawUndefined, RawBad} \cup {JSONstringify(d) : d \in Docs}

extractProfile(rawData) ==
    IF rawData # RawUndefined
    THEN IF JSONparses(rawData) THEN JSONparse(rawData) ELSE Null
    ELSE Null

\* ------------------------------------------------------------------ state
VARIABLES
    now,                  \* Date.now()
    subs,                 \* every sub object ever created, by identity
    nextSub,              \* identity of the next sub object
    activeSubscriptions,  \* roomId -> sub identity, 0 when the room has no entry
    cache,                \* roomId -> the cache file of the room
    disk,                 \* roomId -> what the file system does with that file
    delivered,            \* per listener callback, the values it was called with
    relayMode,            \* per relay: "up", "stalled" or "refused"
    relayField,           \* per relay and room, the serialized profile field
    writes,               \* how often an editor has changed a relay's field
    calls,                \* per getProfile call, its frame
    hist,                 \* per getProfile call, what it has observed and done
    lst,                  \* per subscribe call, its listener and ready future
    conns,                \* relay server: every socket accepted, by identity
    rooms,                \* relay server: roomName -> Map<conn, {role}>
    observedRooms,        \* relay server: rooms whose document has the observer
    docs,                 \* relay server: roomName -> the document's profile field
    lastProfileJson,      \* relay server: per observer, the last raw value seen
    pushed,               \* relay server: per socket, the profiles sent to it
    edits,                \* how often a peer has changed a room's field
    idVals,               \* an id as received, then each value derived from it
    idOps,                \* the conversions applied to it, in order
    fetches,              \* every fetchFresh call made, by identity
    views,                \* every viewProfile call made, by identity
    shares                \* every shareProfile call made, by identity

storeVars == <<now, subs, nextSub, activeSubscriptions, cache, disk, delivered,
               relayMode, relayField, writes, calls, hist, lst>>

relayVars == <<conns, rooms, observedRooms, docs, lastProfileJson, pushed, edits>>

idVars == <<idVals, idOps>>

fetchVars == <<fetches>>

viewVars == <<views, shares>>

\* What the callbacks of the store, and those of the relay, never touch.
nonStoreVars == <<relayVars, idVars, fetchVars, viewVars>>
nonRelayVars == <<storeVars, idVars, fetchVars, viewVars>>

vars == <<storeVars, relayVars, idVars, fetchVars, viewVars>>

\* No id is being converted.
NoConversion == idVals = <<>> /\ idOps = <<>>

\* ----------------------------------------------------------- sub objects
Pending == [st |-> "pending", val |-> Null, by |-> "none"]
Resolved(v, how) == [st |-> "resolved", val |-> v, by |-> how]

UnusedSub ==
    [status |-> "unused", room |-> NoRoom, relayUrl |-> Null, profile |-> Null,
     listeners |-> {}, idleTimer |-> NoTimer, pollTimer |-> FALSE,
     field |-> RawUndefined, synced |-> FALSE, connError |-> FALSE,
     readyTimer |-> FALSE, ready |-> Pending, fetching |-> FALSE,
     pushErrors |-> FALSE]

NewSub(roomId, relayUrl) ==
    [UnusedSub EXCEPT !.status = "live", !.room = roomId, !.relayUrl = relayUrl]

NoEntry == [present |-> FALSE, profile |-> Null, cachedAt |-> 0, sourceRelay |-> Null]

\* The manager's mutable state as one value, so that a handler is a function
\* from store to store and handlers compose as the calls in the code do.
Store ==
    [subs |-> subs, reg |-> activeSubscriptions, cache |-> cache,
     disk |-> disk, delivered |-> delivered, nextSub |-> nextSub]

Commit(st) ==
    /\ subs' = st.subs
    /\ activeSubscriptions' = st.reg
    /\ cache' = st.cache
    /\ disk' = st.disk
    /\ delivered' = st.delivered
    /\ nextSub' = st.nextSub

\* ------------------------------------------------------------ disk cache
\* What the file system does with the cache file of a room: "ok", the
\* file (if there is one) is read and written; "corrupt", its content is
\* no JSON, until it is overwritten; "unreadable", readFileSync and
\* writeFileSync throw; "readonly", writeFileSync throws.
DiskKinds == {"ok", "corrupt", "unreadable", "readonly"}
ReadFails(kind) == kind \in {"corrupt", "unreadable"}
WriteFails(kind) == kind \in {"unreadable", "readonly"}

\* Variant without the try/catch: what is in the file is taken for an
\* entry even when reading or parsing it fails; C22 does not hold of it.
readCacheUnguarded(st, roomId) == st.cache[roomId]

\* existsSync, readFileSync and JSON.parse inside try/catch: null (NoEntry)
\* when there is no file and when reading or parsing throws.
readCache(st, roomId) ==
    IF ReadFails(st.disk[roomId]) THEN NoEntry ELSE st.cache[roomId]

\* writeFileSync inside try/catch: a write that throws leaves the file as
\* it is and is only logged.
writeCache(st, roomId, profile, sourceRelay, t) ==
    IF WriteFails(st.disk[roomId]) THEN st
    ELSE [st EXCEPT !.cache[roomId] =
            [present |-> TRUE, profile |-> profile, cachedAt |-> t,
             sourceRelay |-> IF Truthy(sourceRelay) THEN sourceRelay ELSE Null],
                    !.disk[roomId] = "ok"]

\* Variant with the boundary age counted as fresh; C1 does not hold of it.
IsFreshInclusive(cached, t) == cached.present /\ (t - cached.cachedAt) <= CACHE_TTL_MS

\* cached && (Date.now() - cached.cachedAt) < CACHE_TTL_MS
IsFresh(cached, t) == cached.present /\ (t - cached.cachedAt) < CACHE_TTL_MS

\* ---------------------------------------------------- subscription helpers
\* The callbacks whose invocation throws.
Throwing == {1}

Min(S) == CHOOSE x \in S : \A y \in S : x <= y

\* for (const callback of sub.listeners): a Set iterates in insertion
\* order, which is the order of the subscribe calls.  A callback has the
\* value once it is called, whether it then throws or not; without the
\* try/catch its exception would leave the loop.
RECURSIVE invokeEach(_, _, _, _)
invokeEach(dl, ls, profile, guarded) ==
    IF ls = {} THEN dl
    ELSE LET l == Min(ls)
             dl1 == [dl EXCEPT ![l] = Append(@, profile)]
         IN IF l \in Throwing /\ ~guarded
            THEN dl1
            ELSE invokeEach(dl1, ls \ {l}, profile, guarded)

\* Variant without the try/catch around the callback; C14 does not hold
\* of it.
notifyListenersUnguarded(st, roomId, profile) ==
    LET s == st.reg[roomId] IN
    IF s = 0 THEN st
    ELSE [st EXCEPT !.delivered =
            invokeEach(st.delivered, st.subs[s].listeners, profile, FALSE)]

notifyListeners(st, roomId, profile) ==
    LET s == st.reg[roomId] IN
    IF s = 0 THEN st
    ELSE [st EXCEPT !.delivered =
            invokeEach(st.delivered, st.subs[s].listeners, profile, TRUE)]

\* Variant that arms the idle timer with no delay; C15 does not hold of it.
resetIdleTimerNoDelay(st, roomId, t) ==
    LET s == st.reg[roomId] IN
    IF s = 0 THEN st
    ELSE [st EXCEPT !.subs[s].idleTimer = t]

resetIdleTimer(st, roomId, t) ==
    LET s == st.reg[roomId] IN
    IF s = 0 THEN st
    ELSE [st EXCEPT !.subs[s].idleTimer = t + SUBSCRIPTION_IDLE_TIMEOUT_MS]

\* Variant that leaves the polling interval running; C27 does not hold of
\* it.
destroySubscriptionKeepsPolling(st, roomId) ==
    LET s == st.reg[roomId] IN
    IF s = 0 THEN st
    ELSE [st EXCEPT !.subs[s].idleTimer = NoTimer,
                    !.subs[s].status = "destroyed",
                    !.subs[s].synced = FALSE,
                    !.subs[s].connError = FALSE,
                    !.subs[s].field = RawUndefined,
                    !.reg[roomId] = 0]

\* provider.disconnect(), provider.destroy() and doc.destroy() leave a
\* provider and a document that receive nothing more.
destroySubscription(st, roomId) ==
    LET s == st.reg[roomId] IN
    IF s = 0 THEN st
    ELSE [st EXCEPT !.subs[s].idleTimer = NoTimer,
                    !.subs[s].pollTimer = FALSE,
                    !.subs[s].status = "destroyed",
                    !.subs[s].synced = FALSE,
                    !.subs[s].connError = FALSE,
                    !.subs[s].field = RawUndefined,
                    !.reg[roomId] = 0]

startPolling(st, roomId, relayUrl) ==
    LET s == st.reg[roomId] IN
    IF s = 0 \/ st.subs[s].pollTimer THEN st
    ELSE [st EXCEPT !.subs[s].pollTimer = TRUE]

\* resolve(...) of the ready promise of sub s: a promise settles once.
resolveReady(st, s, v, how) ==
    IF st.subs[s].ready.st = "pending"
    THEN [st EXCEPT !.subs[s].ready = Resolved(v, how)]
    ELSE st

\* Variant in which a write that throws is not caught and ends the
\* observer; C23 does not hold of it.
primaryObserverWriteThrows(st, s, t) ==
    LET newProfile == extractProfile(st.subs[s].field)
        roomId == st.subs[s].room
    IN
    IF ~Truthy(newProfile) THEN st
    ELSE IF JSONstringify(st.subs[s].profile) # JSONstringify(newProfile)
    THEN IF WriteFails(st.disk[roomId])
         THEN [st EXCEPT !.subs[s].profile = newProfile]
         ELSE notifyListeners(
                writeCache([st EXCEPT !.subs[s].profile = newProfile],
                           roomId, newProfile, st.subs[s].relayUrl, t),
                roomId, newProfile)
    ELSE st

\* Variant without the `if (!newProfile) return`; C32 does not hold of it.
primaryObserverStoresNull(st, s, t) ==
    LET newProfile == extractProfile(st.subs[s].field)
        roomId == st.subs[s].room
    IN
    IF JSONstringify(st.subs[s].profile) # JSONstringify(newProfile)
    THEN notifyListeners(
            writeCache([st EXCEPT !.subs[s].profile = newProfile],
                       roomId, newProfile, st.subs[s].relayUrl, t),
            roomId, newProfile)
    ELSE st

\* profileMap.observe(() => {...}) of ensureSubscription: `sub` and `relayUrl`
\* are the closure's, the listeners are looked up in the registry by roomId.
primaryObserver(st, s, t) ==
    LET newProfile == extractProfile(st.subs[s].field)
        roomId == st.subs[s].room
    IN
    IF ~Truthy(newProfile) THEN st
    ELSE IF JSONstringify(st.subs[s].profile) # JSONstringify(newProfile)
    THEN notifyListeners(
            writeCache([st EXCEPT !.subs[s].profile = newProfile],
                       roomId, newProfile, st.subs[s].relayUrl, t),
            roomId, newProfile)
    ELSE st

\* earlyCheck, the second observer of the same map: it runs after
\* primaryObserver on every change of the map.
earlyCheck(st, s, t) ==
    LET profile == extractProfile(st.subs[s].field) IN
    IF Truthy(profile) /\ ~Truthy(st.subs[s].profile)
    THEN resolveReady(
            writeCache([st EXCEPT !.subs[s].profile = profile,
                                  !.subs[s].readyTimer = FALSE],
                       st.subs[s].room, profile, st.subs[s].relayUrl, t),
            s, profile, "early")
    ELSE st

\* onSync(true), the provider's 'sync' event.
onSync(st, s, t) ==
    LET profile == extractProfile(st.subs[s].field) IN
    IF Truthy(profile)
    THEN resolveReady(
            writeCache([st EXCEPT !.subs[s].profile = profile,
                                  !.subs[s].readyTimer = FALSE],
                       st.subs[s].room, profile, st.subs[s].relayUrl, t),
            s, profile, "sync")
    ELSE st

\* The observers of the map in the order they were registered.
mapChanged(st, s, t) == earlyCheck(primaryObserver(st, s, t), s, t)

\* Variant without the registry lookup: a sub is created on every call.
\* C2 does not hold of it.
ensureSubscriptionAlwaysNew(st, roomId, relayUrl, t) ==
    IF st.nextSub > MaxSubs
    THEN [st |-> st, ready |-> [kind |-> "now", val |-> Null, sub |-> 0],
          created |-> FALSE, overflow |-> TRUE]
    ELSE LET s == st.nextSub
             st1 == [st EXCEPT !.subs[s] = [NewSub(roomId, relayUrl) EXCEPT !.readyTimer = TRUE],
                               !.reg[roomId] = s,
                               !.nextSub = s + 1]
             st2 == startPolling(st1, roomId, relayUrl)
             st3 == resetIdleTimer(st2, roomId, t)
         IN [st |-> st3, ready |-> [kind |-> "sub", val |-> Null, sub |-> s],
             created |-> TRUE, overflow |-> FALSE]

\* Variant whose reuse branch rebinds the sub to the relay it is called
\* with.  C10 does not hold of it.
ensureSubscriptionRebinds(st, roomId, relayUrl, t) ==
    IF st.reg[roomId] # 0
    THEN [st |-> resetIdleTimer([st EXCEPT !.subs[st.reg[roomId]].relayUrl = relayUrl],
                                roomId, t),
          ready |-> [kind |-> "now", val |-> st.subs[st.reg[roomId]].profile, sub |-> 0],
          created |-> FALSE, overflow |-> FALSE]
    ELSE ensureSubscriptionAlwaysNew(st, roomId, relayUrl, t)

\* ensureSubscription: the store after it, the promise it returns
\* (kind "now": Promise.resolve(val); kind "sub": the ready promise of the
\* sub it created), and whether the bound on sub objects stops it.
ensureSubscription(st, roomId, relayUrl, t) ==
    IF st.reg[roomId] # 0
    THEN [st |-> resetIdleTimer(st, roomId, t),
          ready |-> [kind |-> "now", val |-> st.subs[st.reg[roomId]].profile, sub |-> 0],
          created |-> FALSE, overflow |-> FALSE]
    ELSE IF st.nextSub > MaxSubs
    THEN [st |-> st, ready |-> [kind |-> "now", val |-> Null, sub |-> 0],
          created |-> FALSE, overflow |-> TRUE]
    ELSE LET s == st.nextSub
             st1 == [st EXCEPT !.subs[s] = [NewSub(roomId, relayUrl) EXCEPT !.readyTimer = TRUE],
                               !.reg[roomId] = s,
                               !.nextSub = s + 1]
             st2 == startPolling(st1, roomId, relayUrl)
             st3 == resetIdleTimer(st2, roomId, t)
         IN [st |-> st3, ready |-> [kind |-> "sub", val |-> Null, sub |-> s],
             created |-> TRUE, overflow |-> FALSE]

\* ------------------------------------------------------------- getProfile
IdleFrame ==
    [pc |-> "idle", roomId |-> NoRoom, urls |-> <<>>, cached |-> NoEntry,
     orderedUrls |-> <<>>, i |-> 0, awaitSub |-> 0, awaitVal |-> Null,
     result |-> Null]

\* What a call has seen and done, recorded as it goes (read by the
\* properties only, never by the handlers).
IdleHist ==
    [startNow |-> 0, startDoc |-> Null, startReg |-> 0, startBusy |-> FALSE,
     tried |-> <<>>, opened |-> <<>>, timeouts |-> 0, awaits |-> 0,
     netDoc |-> Null, doneReg |-> 0, doneOpen |-> {}, via |-> "none",
     startDisk |-> "ok", made |-> {}]

\* The relays to which a primary connection of the room is open.
OpenRelays(st, roomId) ==
    {st.subs[s].relayUrl : s \in {x \in SubIds : st.subs[x].status = "live"
                                                  /\ st.subs[x].room = roomId}}

\* `return v` of getProfile.
finish(st, fr, h, v, how) ==
    [st |-> st, overflow |-> FALSE,
     frame |-> [fr EXCEPT !.pc = "done", !.result = v, !.awaitSub = 0, !.awaitVal = Null],
     h |-> [h EXCEPT !.via = how, !.doneReg = st.reg[fr.roomId],
                     !.doneOpen = OpenRelays(st, fr.roomId)]]

\* Variant that keeps the caller's order.  C6 does not hold of it.
orderUrlsAsGiven(cached, urls) == urls

\* preferredRelay && urls.includes(preferredRelay) ? [preferredRelay, ...rest] : urls
orderUrls(cached, urls) ==
    LET preferredRelay == cached.sourceRelay
        NotPreferred(u) == u # preferredRelay
    IN
    IF Truthy(preferredRelay) /\ (\E k \in 1..Len(urls) : urls[k] = preferredRelay)
    THEN <<preferredRelay>> \o SelectSeq(urls, NotPreferred)
    ELSE urls

\* One turn of the for loop, up to its `await ready`.
loopTry(st, fr, h, i, t) ==
    LET relayUrl == fr.orderedUrls[i]
        r == ensureSubscription(st, fr.roomId, relayUrl, t)
    IN
    [st |-> r.st, overflow |-> r.overflow,
     frame |-> [fr EXCEPT !.pc = "await", !.i = i,
                          !.awaitSub = r.ready.sub, !.awaitVal = r.ready.val],
     h |-> [h EXCEPT !.tried = Append(@, relayUrl),
                     !.opened = IF r.created THEN Append(@, relayUrl) ELSE @,
                     !.made = IF r.created THEN @ \cup {r.ready.sub} ELSE @,
                     !.awaits = @ + 1]]

\* Variant that prefers the first candidate to the cache's source relay.
\* C8 does not hold of it.
freshRelayCandidateFirst(cached, urls) ==
    IF urls # <<>> THEN urls[1]
    ELSE IF Truthy(cached.sourceRelay) THEN cached.sourceRelay ELSE Null

\* cached.sourceRelay || urls[0] of the fresh-cache step (undefined as Null).
freshRelay(cached, urls) ==
    IF Truthy(cached.sourceRelay) THEN cached.sourceRelay
    ELSE IF urls # <<>> THEN urls[1] ELSE Null

\* getProfile from its entry to its first await or its return.
getProfileEnter(st, profileId, urls, t) ==
    LET roomId == toRoomId(profileId)
        existing == st.reg[roomId]
        existingProfile == IF existing # 0 THEN st.subs[existing].profile ELSE Null
        cached == readCache(st, roomId)
        fr == [IdleFrame EXCEPT !.roomId = roomId, !.urls = urls, !.cached = cached]
        h == [IdleHist EXCEPT !.startNow = t, !.startDoc = existingProfile,
                              !.startReg = existing, !.startDisk = st.disk[roomId]]
    IN
    IF Truthy(existingProfile)
    THEN finish(st, fr, h, existingProfile, "replica")
    ELSE IF IsFresh(cached, t)
    THEN LET relayUrl == freshRelay(cached, urls)
             r == IF Truthy(relayUrl)
                  THEN ensureSubscription(st, roomId, relayUrl, t)
                  ELSE [st |-> st, created |-> FALSE, overflow |-> FALSE]
             f == finish(r.st, fr,
                         [h EXCEPT !.opened = IF r.created THEN <<relayUrl>> ELSE <<>>],
                         cached.profile, "fresh")
         IN [f EXCEPT !.overflow = r.overflow]
    ELSE IF urls = <<>>
    THEN finish(st, fr, h,
                IF cached.present /\ Truthy(cached.profile) THEN cached.profile ELSE Null,
                "nourls")
    ELSE loopTry(st, [fr EXCEPT !.orderedUrls = orderUrls(cached, urls)], h, 1, t)

\* Variant without the stale-cache fallback.  C7 does not hold of it.
getProfileResumedNoStale(st, fr, h, profile, t) ==
    IF Truthy(profile)
    THEN finish(st, fr, h, profile, "network")
    ELSE LET st1 == destroySubscription(st, fr.roomId) IN
         IF fr.i < Len(fr.orderedUrls)
         THEN loopTry(st1, fr, h, fr.i + 1, t)
         ELSE finish(st1, fr, h, Null, "absent")

\* getProfile from the settlement of `await ready` to the next await or
\* the return.
getProfileResumed(st, fr, h, profile, t) ==
    IF Truthy(profile)
    THEN finish(st, fr, h, profile, "network")
    ELSE LET st1 == destroySubscription(st, fr.roomId) IN
         IF fr.i < Len(fr.orderedUrls)
         THEN loopTry(st1, fr, h, fr.i + 1, t)
         ELSE IF fr.cached.present
         THEN finish(st1, fr, h, fr.cached.profile, "stale")
         ELSE finish(st1, fr, h, Null, "absent")

\* ------------------------------------------------------------ scheduling
\* The promise call c awaits has settled: its continuation is a microtask.
Runnable(c) ==
    /\ calls[c].pc = "await"
    /\ IF calls[c].awaitSub = 0 THEN TRUE
       ELSE subs[calls[c].awaitSub].ready.st = "resolved"

\* Timer and network callbacks are macrotasks: none runs while a microtask
\* is queued.
MacroEnabled == \A c \in Calls : ~Runnable(c)

\* getProfile and subscribe calls made so far.
ApiCalls ==
    Cardinality({c \in Calls : calls[c].pc # "idle"})
    + Cardinality({l \in Listeners : lst[l].state # "unused"})

\* The caller's own code can run between `await Promise.resolve(v)` and the
\* continuation, not between a promise settled by a callback and its
\* continuation.
ApiEnabled ==
    \A c \in Calls : Runnable(c) => calls[c].awaitSub = 0

\* ---------------------------------------------------------------- actions
GetProfileStart(c, profileId, relayUrls) ==
    /\ calls[c].pc = "idle"
    /\ \A d \in Calls : d < c => calls[d].pc # "idle"
    /\ ApiCalls < MaxApi
    /\ ApiEnabled
    /\ LET r == getProfileEnter(Store, profileId, relayUrls, now) IN
        /\ ~r.overflow
        /\ Commit(r.st)
        /\ calls' = [calls EXCEPT ![c] = r.frame]
        /\ hist' = [hist EXCEPT ![c] =
                [r.h EXCEPT !.startBusy = \E d \in Calls : calls[d].pc = "await"]]
    /\ UNCHANGED <<now, relayMode, relayField, writes, lst>>
    /\ UNCHANGED nonStoreVars

GetProfileResume(c) ==
    /\ Runnable(c)
    /\ LET fr == calls[c]
           profile == IF fr.awaitSub = 0 THEN fr.awaitVal ELSE subs[fr.awaitSub].ready.val
           timedOut == IF fr.awaitSub = 0 THEN FALSE
                       ELSE subs[fr.awaitSub].ready.by = "timeout"
           h == [hist[c] EXCEPT !.timeouts = @ + (IF timedOut THEN 1 ELSE 0),
                                !.netDoc = IF Truthy(profile) THEN profile ELSE @]
       IN \E r \in {getProfileResumed(Store, fr, h, profile, now)} :
            /\ ~r.overflow
            /\ Commit(r.st)
            /\ calls' = [calls EXCEPT ![c] = r.frame]
            /\ hist' = [hist EXCEPT ![c] = r.h]
    /\ UNCHANGED <<now, relayMode, relayField, writes, lst>>
    /\ UNCHANGED nonStoreVars

\* The provider of sub s completes the sync handshake with its relay: the
\* relay's document state is applied to the local doc (the map's observers
\* run if the field arrived), then 'sync' is emitted.
Sync(s) ==
    /\ MacroEnabled
    /\ subs[s].status = "live"
    /\ ~subs[s].synced
    /\ relayMode[subs[s].relayUrl] = "up"
    /\ LET raw == relayField[subs[s].relayUrl][subs[s].room]
           st0 == [Store EXCEPT !.subs[s].field = raw, !.subs[s].synced = TRUE]
       IN \E st1 \in {IF raw # RawUndefined THEN mapChanged(st0, s, now) ELSE st0} :
            \E st2 \in {onSync(st1, s, now)} : Commit(st2)
    /\ UNCHANGED <<now, relayMode, relayField, writes, calls, hist, lst>>
    /\ UNCHANGED nonStoreVars

\* A later change of the relay's field reaches the synced local doc.
RemoteUpdate(s) ==
    /\ MacroEnabled
    /\ subs[s].status = "live"
    /\ subs[s].synced
    /\ relayMode[subs[s].relayUrl] = "up"
    /\ subs[s].field # relayField[subs[s].relayUrl][subs[s].room]
    /\ Commit(mapChanged([Store EXCEPT !.subs[s].field =
                              relayField[subs[s].relayUrl][subs[s].room]], s, now))
    /\ UNCHANGED <<now, relayMode, relayField, writes, calls, hist, lst>>
    /\ UNCHANGED nonStoreVars

\* provider.on('connection-error'): logged, nothing else.
ConnectionError(s) ==
    /\ MacroEnabled
    /\ subs[s].status = "live"
    /\ relayMode[subs[s].relayUrl] = "refused"
    /\ ~subs[s].connError
    /\ Commit([Store EXCEPT !.subs[s].connError = TRUE])
    /\ UNCHANGED <<now, relayMode, relayField, writes, calls, hist, lst>>
    /\ UNCHANGED nonStoreVars

\* setTimeout(() => resolve(sub.profile), 10000).  A relay that is up
\* completes the handshake within the window.
ReadyTimeout(s) ==
    /\ MacroEnabled
    /\ subs[s].readyTimer
    /\ ~(subs[s].status = "live" /\ ~subs[s].synced /\ relayMode[subs[s].relayUrl] = "up")
    /\ Commit(resolveReady([Store EXCEPT !.subs[s].readyTimer = FALSE],
                           s, subs[s].profile, "timeout"))
    /\ UNCHANGED <<now, relayMode, relayField, writes, calls, hist, lst>>
    /\ UNCHANGED nonStoreVars

\* Variant of the idle timer's callback that does not look at the
\* listener set; C16 does not hold of it.
idleExpiredAlways(st, s) ==
    destroySubscription([st EXCEPT !.subs[s].idleTimer = NoTimer], st.subs[s].room)

\* The callback resetIdleTimer hands to setTimeout, for the timer of sub s.
idleExpired(st, s) ==
    LET roomId == st.subs[s].room
        st0 == [st EXCEPT !.subs[s].idleTimer = NoTimer]
        current == st0.reg[roomId]
    IN IF current # 0 /\ Cardinality(st0.subs[current].listeners) = 0
       THEN destroySubscription(st0, roomId)
       ELSE st0

\* The idle timer of sub s fires.
IdleTimeout(s) ==
    /\ MacroEnabled
    /\ subs[s].idleTimer # NoTimer
    /\ now >= subs[s].idleTimer
    /\ Commit(idleExpired(Store, s))
    /\ UNCHANGED <<now, relayMode, relayField, writes, calls, hist, lst>>
    /\ UNCHANGED nonStoreVars

\* -------------------------------------------------- subscribe, unsubscribe
UnusedListener ==
    [state |-> "unused", roomId |-> NoRoom, readySub |-> 0, foundSub |-> 0,
     readyVal |-> Null, unsubscribedAt |-> NoTimer]

\* subscribe(profileId, relayUrls, callback) with callback l.  Without a
\* Replica and without a candidate, toWsUrl(undefined) throws before any
\* state is touched: that call is left out.
Subscribe(l, profileId, relayUrls) ==
    /\ ApiEnabled
    /\ lst[l].state = "unused"
    /\ \A k \in Listeners : k < l => lst[k].state # "unused"
    /\ ApiCalls < MaxApi
    /\ LET roomId == toRoomId(profileId)
           existing == activeSubscriptions[roomId]
           relayUrl == IF existing # 0 /\ Truthy(subs[existing].relayUrl)
                       THEN subs[existing].relayUrl
                       ELSE IF relayUrls # <<>> THEN relayUrls[1] ELSE Null
       IN
        /\ Truthy(relayUrl)
        /\ LET r == ensureSubscription(Store, roomId, relayUrl, now)
               sub == r.st.reg[roomId]
               st1 == IF sub # 0
                      THEN [r.st EXCEPT !.subs[sub].listeners = @ \cup {l}]
                      ELSE r.st
           IN
            /\ ~r.overflow
            /\ Commit(st1)
            /\ lst' = [lst EXCEPT ![l] = [state |-> "subscribed", roomId |-> roomId,
                                          readySub |-> r.ready.sub,
                                          foundSub |-> existing,
                                          readyVal |-> r.ready.val,
                                          unsubscribedAt |-> NoTimer]]
    /\ UNCHANGED <<now, relayMode, relayField, writes, calls, hist>>
    /\ UNCHANGED nonStoreVars

\* Variant whose listeners.delete is a listeners.clear; C11 does not hold
\* of it.
unsubscribeClears(st, roomId, l, t) ==
    LET current == st.reg[roomId] IN
    IF current # 0
    THEN resetIdleTimer([st EXCEPT !.subs[current].listeners = {}], roomId, t)
    ELSE st

\* The unsubscribe closure returned to the subscriber of callback l.
unsubscribe(st, roomId, l, t) ==
    LET current == st.reg[roomId] IN
    IF current # 0
    THEN LET st1 == [st EXCEPT !.subs[current].listeners = @ \ {l}] IN
         IF Cardinality(st1.subs[current].listeners) = 0
         THEN resetIdleTimer(st1, roomId, t)
         ELSE st1
    ELSE st

Unsubscribe(l) ==
    /\ ApiEnabled
    /\ lst[l].state # "unused"
    /\ Commit(unsubscribe(Store, lst[l].roomId, l, now))
    /\ lst' = [lst EXCEPT ![l].state = "unsubscribed",
                           ![l].unsubscribedAt =
                                IF lst[l].state = "subscribed" THEN now ELSE @]
    /\ UNCHANGED <<now, relayMode, relayField, writes, calls, hist>>
    /\ UNCHANGED nonStoreVars

\* The ready future a subscriber holds.
ListenerReady(l) ==
    IF lst[l].readySub = 0
    THEN Resolved(lst[l].readyVal, "immediate")
    ELSE subs[lst[l].readySub].ready

\* Variant of the interval's callback that does not look at the listener
\* set; C30 does not hold of it.
pollTickAnyListeners(st, s) ==
    LET current == st.reg[st.subs[s].room] IN
    IF current = 0 THEN st
    ELSE [st EXCEPT !.subs[current].fetching = TRUE]

\* The callback startPolling hands to setInterval for sub s, up to its
\* `await fetchFresh(roomId, relayUrl)`.
pollTick(st, s) ==
    LET current == st.reg[st.subs[s].room] IN
    IF current = 0 \/ Cardinality(st.subs[current].listeners) = 0 THEN st
    ELSE [st EXCEPT !.subs[current].fetching = TRUE]

\* ----------------------------------------------------------------- polling
\* A tick of the setInterval of startPolling, up to `await fetchFresh`.
\* The fetch of the previous tick has settled (8 s) before the next tick
\* (10 s), and the first tick comes after the ready timer of the same sub,
\* which was set before it with the same delay.
PollTick(s) ==
    /\ MacroEnabled
    /\ subs[s].pollTimer
    /\ ~subs[s].readyTimer
    /\ ~subs[s].fetching
    /\ Commit(pollTick(Store, s))
    /\ UNCHANGED <<now, relayMode, relayField, writes, calls, hist, lst>>
    /\ UNCHANGED nonStoreVars

\* What fetchFresh resolves to: the parsed field of a relay that is up,
\* null on timeout or connection error.
fetchFresh(roomId, relayUrl) ==
    LET raw == relayField[relayUrl][roomId] IN
    IF relayMode[relayUrl] = "up" /\ raw # RawUndefined /\ JSONparses(raw)
    THEN JSONparse(raw)
    ELSE Null

\* Variant of the tick that keeps the new value without writing the cache;
\* C12 does not hold of it.
pollResumedNoCache(st, current, freshProfile, t) ==
    LET roomId == st.subs[current].room
        st0 == [st EXCEPT !.subs[current].fetching = FALSE]
    IN
    IF ~Truthy(freshProfile) THEN st0
    ELSE IF JSONstringify(st0.subs[current].profile) # JSONstringify(freshProfile)
    THEN notifyListeners([st0 EXCEPT !.subs[current].profile = freshProfile],
                         roomId, freshProfile)
    ELSE st0

\* Variant of the tick without the `if (!freshProfile) return`; C36 does
\* not hold of it.
pollResumedStoresNull(st, current, freshProfile, t) ==
    LET roomId == st.subs[current].room
        relayUrl == st.subs[current].relayUrl
        st0 == [st EXCEPT !.subs[current].fetching = FALSE]
    IN
    IF JSONstringify(st0.subs[current].profile) # JSONstringify(freshProfile)
    THEN notifyListeners(
            writeCache([st0 EXCEPT !.subs[current].profile = freshProfile],
                       roomId, freshProfile, relayUrl, t),
            roomId, freshProfile)
    ELSE st0

\* The rest of the tick after fetchFresh has settled; `current` is the sub
\* the tick looked up before the await.
pollResumed(st, current, freshProfile, t) ==
    LET roomId == st.subs[current].room
        relayUrl == st.subs[current].relayUrl
        st0 == [st EXCEPT !.subs[current].fetching = FALSE]
    IN
    IF ~Truthy(freshProfile) THEN st0
    ELSE IF JSONstringify(st0.subs[current].profile) # JSONstringify(freshProfile)
    THEN notifyListeners(
            writeCache([st0 EXCEPT !.subs[current].profile = freshProfile],
                       roomId, freshProfile, relayUrl, t),
            roomId, freshProfile)
    ELSE st0

PollSettle(s) ==
    /\ MacroEnabled
    /\ subs[s].fetching
    /\ Commit(pollResumed(Store, s, fetchFresh(subs[s].room, subs[s].relayUrl), now))
    /\ UNCHANGED <<now, relayMode, relayField, writes, calls, hist, lst>>
    /\ UNCHANGED nonStoreVars

\* ------------------------------------------------------------- fetchFresh
\* One call of fetchFresh(roomId, relayUrl) as an object of its own: the
\* temporary doc and provider, the 8 s timer, the `resolved` flag, and every
\* call of resolve() with what was still held when it ran.
MaxFetches == 2
FetchIds == 1..MaxFetches

UnusedFetch ==
    [status |-> "unused", roomId |-> NoRoom, relayUrl |-> Null,
     resolved |-> FALSE, timeoutId |-> FALSE, connected |-> FALSE,
     docLive |-> FALSE, field |-> RawUndefined, synced |-> FALSE,
     connError |-> FALSE, settled |-> <<>>]

NoFetch == fetches = [f \in FetchIds |-> UnusedFetch]

\* clearTimeout(timeoutId); provider.disconnect(); provider.destroy();
\* doc.destroy()
cleanup(ft) ==
    [ft EXCEPT !.timeoutId = FALSE, !.connected = FALSE, !.docLive = FALSE]

\* resolve(v) of the promise fetchFresh returns.
resolve(ft, v) ==
    [ft EXCEPT !.settled = Append(@, [val |-> v, timeoutId |-> ft.timeoutId,
                                      connected |-> ft.connected,
                                      docLive |-> ft.docLive])]

\* Variant that delivers the result first and releases afterwards; C29
\* does not hold of it.
settleThenCleanup(ft, v) == cleanup(resolve([ft EXCEPT !.resolved = TRUE], v))

\* resolved = true; cleanup(); resolve(v)
settle(ft, v) == resolve(cleanup([ft EXCEPT !.resolved = TRUE]), v)

\* Variant of the timer's callback that settles nothing; C28 does not
\* hold of it.
fetchTimedOutSilent(ft) == ft

\* The callback of the 8 s timer.
fetchTimedOut(ft) == IF ~ft.resolved THEN settle(ft, Null) ELSE ft

tryExtract(ft) ==
    IF ft.resolved THEN ft
    ELSE LET rawData == ft.field IN
         IF rawData # RawUndefined /\ JSONparses(rawData)
         THEN settle(ft, JSONparse(rawData))
         ELSE ft

\* provider.on('connection-error', ...)
fetchConnectionError(ft) == IF ~ft.resolved THEN settle(ft, Null) ELSE ft

\* fetchFresh(roomId, relayUrl) up to the return of its promise.
FetchStart(f, roomId, relayUrl) ==
    /\ fetches[f].status = "unused"
    /\ \A g \in FetchIds : g < f => fetches[g].status # "unused"
    /\ fetches' = [fetches EXCEPT ![f] =
            [UnusedFetch EXCEPT !.status = "open", !.roomId = roomId,
                                !.relayUrl = relayUrl, !.timeoutId = TRUE,
                                !.connected = TRUE, !.docLive = TRUE]]
    /\ UNCHANGED <<storeVars, relayVars, idVars, viewVars>>

\* The 8 s timer of fetch f fires; a cleared timer does not.
FetchTimeout(f) ==
    /\ fetches[f].timeoutId
    /\ fetches' = [fetches EXCEPT ![f] = fetchTimedOut([@ EXCEPT !.timeoutId = FALSE])]
    /\ UNCHANGED <<storeVars, relayVars, idVars, viewVars>>

\* The sync handshake of fetch f completes: the relay's field is applied to
\* the temporary doc (its observer runs if the field arrived), then 'sync'
\* is emitted.  A message under way when cleanup ran may still be
\* delivered.
FetchSync(f) ==
    /\ fetches[f].status = "open"
    /\ ~fetches[f].synced
    /\ relayMode[fetches[f].relayUrl] = "up"
    /\ LET raw == relayField[fetches[f].relayUrl][fetches[f].roomId]
           ft0 == [fetches[f] EXCEPT !.field = raw, !.synced = TRUE]
           ft1 == IF raw # RawUndefined THEN tryExtract(ft0) ELSE ft0
       IN fetches' = [fetches EXCEPT ![f] = tryExtract(ft1)]
    /\ UNCHANGED <<storeVars, relayVars, idVars, viewVars>>

\* A change of the relay's field reaches the temporary doc of fetch f.
FetchUpdate(f) ==
    /\ fetches[f].status = "open"
    /\ fetches[f].synced
    /\ relayMode[fetches[f].relayUrl] = "up"
    /\ fetches[f].field # relayField[fetches[f].relayUrl][fetches[f].roomId]
    /\ fetches' = [fetches EXCEPT ![f] =
            tryExtract([@ EXCEPT !.field =
                            relayField[fetches[f].relayUrl][fetches[f].roomId]])]
    /\ UNCHANGED <<storeVars, relayVars, idVars, viewVars>>

\* The socket of fetch f cannot be opened; the provider retries, so the
\* event can come again.
FetchConnectionError(f) ==
    /\ fetches[f].status = "open"
    /\ relayMode[fetches[f].relayUrl] = "refused"
    /\ fetches' = [fetches EXCEPT ![f] =
            fetchConnectionError([@ EXCEPT !.connError = TRUE])]
    /\ UNCHANGED <<storeVars, relayVars, idVars, viewVars>>

\* ------------------------------------------------- viewProfile, shareProfile
\* The two calls of the app's sharing module, each as an object of its
\* own: the doc and provider it creates, its timer, and every call it makes
\* of the caller's callbacks or of the promise's resolve and reject.
MaxViews == 1
MaxShares == 1
ViewIds == 1..MaxViews
ShareIds == 1..MaxShares

UnusedView ==
    [status |-> "unused", roomId |-> NoRoom, relayUrl |-> Null,
     found |-> FALSE, timeoutId |-> FALSE, connected |-> FALSE,
     docLive |-> FALSE, field |-> RawUndefined, synced |-> FALSE,
     onData |-> <<>>, onTimeout |-> 0, cleaned |-> FALSE]

\* resolves and rejects count the calls of resolve and reject; outcome is
\* the state of the promise, which the first of them settles.
UnusedShare ==
    [status |-> "unused", relayUrl |-> Null, timeoutId |-> FALSE,
     connected |-> FALSE, docLive |-> FALSE, synced |-> FALSE,
     outcome |-> "pending", resolves |-> 0, rejects |-> 0, cleaned |-> FALSE]

NoView ==
    /\ views = [v \in ViewIds |-> UnusedView]
    /\ shares = [h \in ShareIds |-> UnusedShare]

\* The callback of viewProfile's setTimeout.
viewTimedOut(vw) ==
    IF ~vw.found THEN [vw EXCEPT !.onTimeout = @ + 1] ELSE vw

\* The body shared by viewProfile's 'sync' handler and its observer of the
\* map, once each has passed its test of `found`.
viewDeliver(vw) ==
    LET rawData == vw.field IN
    IF rawData # RawUndefined /\ JSONparses(rawData)
    THEN [vw EXCEPT !.found = TRUE, !.timeoutId = FALSE,
                    !.onData = Append(@, JSONparse(rawData))]
    ELSE vw

\* profileMap.observe(() => {...}) of viewProfile.
viewObserver(vw) == IF vw.found THEN vw ELSE viewDeliver(vw)

\* provider.on('sync', ...) of viewProfile, for synced = true.
viewOnSync(vw) == IF ~vw.found THEN viewDeliver(vw) ELSE vw

\* The cleanup function of viewProfile and that of shareProfile.
viewCleanup(vw) ==
    [vw EXCEPT !.timeoutId = FALSE, !.connected = FALSE, !.docLive = FALSE]

shareCleanup(sh) == [sh EXCEPT !.connected = FALSE, !.docLive = FALSE]

\* resolve({roomId, cleanup}) and reject(err) of shareProfile's promise.
shareResolve(sh) ==
    [sh EXCEPT !.resolves = @ + 1,
               !.outcome = IF @ = "pending" THEN "resolved" ELSE @]

shareReject(sh) ==
    [sh EXCEPT !.rejects = @ + 1,
               !.outcome = IF @ = "pending" THEN "rejected" ELSE @]

\* provider.on('connection-error', ...) of shareProfile.
shareConnectionError(sh) ==
    shareReject(shareCleanup([sh EXCEPT !.timeoutId = FALSE]))

\* viewProfile(roomId, relayUrl, onData, onTimeout) up to its return.
ViewStart(v, roomId, relayUrl) ==
    /\ views[v].status = "unused"
    /\ \A w \in ViewIds : w < v => views[w].status # "unused"
    /\ views' = [views EXCEPT ![v] =
            [UnusedView EXCEPT !.status = "open", !.roomId = roomId,
                               !.relayUrl = relayUrl, !.timeoutId = TRUE,
                               !.connected = TRUE, !.docLive = TRUE]]
    /\ UNCHANGED <<storeVars, relayVars, idVars, fetchVars, shares>>

\* The timer of view v fires; a cleared timer does not.
ViewTimeout(v) ==
    /\ views[v].timeoutId
    /\ views' = [views EXCEPT ![v] = viewTimedOut([@ EXCEPT !.timeoutId = FALSE])]
    /\ UNCHANGED <<storeVars, relayVars, idVars, fetchVars, shares>>

\* The sync handshake of view v completes: the relay's field is applied to
\* the doc (the observer runs if the field arrived), then 'sync' is emitted.
ViewSync(v) ==
    /\ views[v].connected
    /\ ~views[v].synced
    /\ relayMode[views[v].relayUrl] = "up"
    /\ LET raw == relayField[views[v].relayUrl][views[v].roomId]
           vw0 == [views[v] EXCEPT !.field = raw, !.synced = TRUE]
           vw1 == IF raw # RawUndefined THEN viewObserver(vw0) ELSE vw0
       IN views' = [views EXCEPT ![v] = viewOnSync(vw1)]
    /\ UNCHANGED <<storeVars, relayVars, idVars, fetchVars, shares>>

\* A change of the relay's field reaches the doc of view v.
ViewUpdate(v) ==
    /\ views[v].connected
    /\ views[v].synced
    /\ relayMode[views[v].relayUrl] = "up"
    /\ views[v].field # relayField[views[v].relayUrl][views[v].roomId]
    /\ views' = [views EXCEPT ![v] =
            viewObserver([@ EXCEPT !.field =
                            relayField[views[v].relayUrl][views[v].roomId]])]
    /\ UNCHANGED <<storeVars, relayVars, idVars, fetchVars, shares>>

\* The caller invokes the cleanup viewProfile returned.
ViewCleanup(v) ==
    /\ views[v].status = "open"
    /\ ~views[v].cleaned
    /\ views' = [views EXCEPT ![v] = viewCleanup([@ EXCEPT !.cleaned = TRUE])]
    /\ UNCHANGED <<storeVars, relayVars, idVars, fetchVars, shares>>

\* shareProfile(profile, relayUrl) up to the return of the executor.  The
\* room is a new random one, so no other party of the model reads it.
ShareStart(h, relayUrl) ==
    /\ shares[h].status = "unused"
    /\ \A g \in ShareIds : g < h => shares[g].status # "unused"
    /\ shares' = [shares EXCEPT ![h] =
            [UnusedShare EXCEPT !.status = "open", !.relayUrl = relayUrl,
                                !.timeoutId = TRUE, !.connected = TRUE,
                                !.docLive = TRUE]]
    /\ UNCHANGED <<storeVars, relayVars, idVars, fetchVars, views>>

\* The 8 s timer of share h fires.
ShareTimeout(h) ==
    /\ shares[h].timeoutId
    /\ shares' = [shares EXCEPT ![h] = shareResolve([@ EXCEPT !.timeoutId = FALSE])]
    /\ UNCHANGED <<storeVars, relayVars, idVars, fetchVars, views>>

\* 'sync' with synced = true on the provider of share h.
ShareSync(h) ==
    /\ shares[h].connected
    /\ ~shares[h].synced
    /\ relayMode[shares[h].relayUrl] = "up"
    /\ shares' = [shares EXCEPT ![h] =
            shareResolve([@ EXCEPT !.synced = TRUE, !.timeoutId = FALSE])]
    /\ UNCHANGED <<storeVars, relayVars, idVars, fetchVars, views>>

\* The socket of share h cannot be opened, at the first attempt or at a
\* reconnection; a destroyed provider emits nothing.
ShareConnectionError(h) ==
    /\ shares[h].connected
    /\ relayMode[shares[h].relayUrl] = "refused"
    /\ shares' = [shares EXCEPT ![h] = shareConnectionError(@)]
    /\ UNCHANGED <<storeVars, relayVars, idVars, fetchVars, views>>

\* The caller invokes the cleanup of the ShareResult it was given.
ShareCleanup(h) ==
    /\ shares[h].outcome = "resolved"
    /\ ~shares[h].cleaned
    /\ shares' = [shares EXCEPT ![h] = shareCleanup([@ EXCEPT !.cleaned = TRUE])]
    /\ UNCHANGED <<storeVars, relayVars, idVars, fetchVars, views>>

\* ------------------------------------------------------------ relay push
\* handleRelayPush(roomId, data) of the store that connects as an embed
\* client, for a text frame {type: 'profileUpdate', profile: msgProfile}.
handleRelayPush(st, roomId, msgProfile, t) ==
    LET sub == st.reg[roomId] IN
    IF ~Truthy(msgProfile) THEN st
    ELSE IF sub = 0 THEN st
    ELSE IF JSONstringify(st.subs[sub].profile) # JSONstringify(msgProfile)
    THEN notifyListeners(
            writeCache([st EXCEPT !.subs[sub].profile = msgProfile],
                       roomId, msgProfile, st.subs[sub].relayUrl, t),
            roomId, msgProfile)
    ELSE st

\* The relay's push of what it holds arrives on the open socket of sub s:
\* at connection time, before or after the sync, and after a change.  The
\* relay pushes only a value that parses; a push of the value the Replica
\* already has changes nothing and is left out.
RelayPush(s) ==
    /\ MacroEnabled
    /\ subs[s].status = "live"
    /\ relayMode[subs[s].relayUrl] = "up"
    /\ LET raw == relayField[subs[s].relayUrl][subs[s].room] IN
        /\ raw # RawUndefined
        /\ JSONparses(raw)
        /\ JSONstringify(subs[s].profile) # JSONstringify(JSONparse(raw))
        /\ Commit(handleRelayPush(Store, subs[s].room, JSONparse(raw), now))
    /\ UNCHANGED <<now, relayMode, relayField, writes, calls, hist, lst>>
    /\ UNCHANGED nonStoreVars

\* A text frame that is no JSON arrives on the socket of sub s: JSON.parse
\* throws inside handleRelayPush's try, the catch returns false.
RelayPushMalformed(s) ==
    /\ MacroEnabled
    /\ subs[s].status = "live"
    /\ relayMode[subs[s].relayUrl] = "up"
    /\ relayField[subs[s].relayUrl][subs[s].room] = RawBad
    /\ ~subs[s].pushErrors
    /\ Commit([Store EXCEPT !.subs[s].pushErrors = TRUE])
    /\ UNCHANGED <<now, relayMode, relayField, writes, calls, hist, lst>>
    /\ UNCHANGED nonStoreVars

\* ------------------------------------------------------------- environment
\* An editor's change of the profile field reaches relay r (what a relay
\* that is not up holds is read by nobody).
RelayWrite(r, roomId, raw) ==
    /\ MacroEnabled
    /\ writes < MaxWrites
    /\ relayMode[r] = "up"
    /\ raw # relayField[r][roomId]
    /\ relayField' = [relayField EXCEPT ![r][roomId] = raw]
    /\ writes' = writes + 1
    /\ UNCHANGED <<now, subs, nextSub, activeSubscriptions, cache, disk,
                   delivered, relayMode, calls, hist, lst>>
    /\ UNCHANGED nonStoreVars

\* Time passes.  Timers due fire first: every 10 s ready timeout and 8 s
\* fetch within the step, and an idle timer as soon as it is due.
Advance ==
    /\ MacroEnabled
    /\ now < MaxNow
    /\ \A d \in ShortTimers : d < ClockStep
    /\ \A s \in SubIds :
        /\ ~subs[s].readyTimer
        /\ ~subs[s].fetching
        /\ subs[s].idleTimer # NoTimer => now < subs[s].idleTimer
    /\ now' = now + ClockStep
    /\ UNCHANGED <<subs, nextSub, activeSubscriptions, cache, disk, delivered,
                   relayMode, relayField, writes, calls, hist, lst>>
    /\ UNCHANGED nonStoreVars

\* ----------------------------------------------------------- relay server
\* The relay of relay/server.mjs, as its own process: sockets, the rooms
\* map, the observers on the rooms' documents and the pushes it sends.
MaxConns == 3
MaxEdits == 2

ConnIds == 1..MaxConns
RoomNames == {"r1", "r2"}
NoRoomName == "none"

\* The role query parameter of the URL a socket connects with; Null when
\* the URL has none.
RoleParams == {"embed", "app", Null}

\* WebSocket readyState.
OPEN == 1
CLOSING == 2
CLOSED == 3

\* `let lastProfileJson = null`.
NoJson == <<"null">>

UnusedConn ==
    [status |-> "unused", room |-> NoRoomName, query |-> Null,
     readyState |-> CLOSED, foundRoom |-> FALSE, foundDoc |-> FALSE]

NoClients == [has |-> FALSE, clients |-> <<>>]
\* field is the value of PROFILE_KEY in the document's profile map, other
\* that of another key of the map (a number of writes), and observers counts
\* the callbacks registered with profileMap.observe.
NoDoc == [exists |-> FALSE, field |-> RawUndefined, other |-> 0, observers |-> 0]

RelayStore ==
    [conns |-> conns, rooms |-> rooms, observedRooms |-> observedRooms,
     docs |-> docs, lastProfileJson |-> lastProfileJson, pushed |-> pushed]

RelayCommit(rs) ==
    /\ conns' = rs.conns
    /\ rooms' = rs.rooms
    /\ observedRooms' = rs.observedRooms
    /\ docs' = rs.docs
    /\ lastProfileJson' = rs.lastProfileJson
    /\ pushed' = rs.pushed

\* Variant that takes any role parameter for 'embed'; C21 does not hold of
\* it.
roleOfAnyParam(query) == IF query # Null THEN "embed" ELSE "app"

\* const role = query.role === 'embed' ? 'embed' : 'app'
roleOf(query) == IF query = "embed" THEN "embed" ELSE "app"

\* {type: 'profileUpdate', room, profile, timestamp} as a text frame.
profileUpdate(roomName, profile) == [room |-> roomName, profile |-> profile]

sendJsonMessage(rs, conn, data) ==
    IF rs.conns[conn].readyState = OPEN
    THEN [rs EXCEPT !.pushed[conn] = Append(@, data)]
    ELSE rs

\* for (const [conn, meta] of roomClients) over the entries cs still to visit.
RECURSIVE pushEach(_, _, _, _)
pushEach(rs, roomName, cs, profile) ==
    IF cs = {} THEN rs
    ELSE LET conn == Min(cs)
             meta == rs.rooms[roomName].clients[conn]
             rs1 == IF meta.role = "embed"
                    THEN sendJsonMessage(rs, conn, profileUpdate(roomName, profile))
                    ELSE rs
         IN pushEach(rs1, roomName, cs \ {conn}, profile)

\* The loop without the test of meta.role.
RECURSIVE pushEachAnyRole(_, _, _, _)
pushEachAnyRole(rs, roomName, cs, profile) ==
    IF cs = {} THEN rs
    ELSE LET conn == Min(cs) IN
         pushEachAnyRole(sendJsonMessage(rs, conn, profileUpdate(roomName, profile)),
                         roomName, cs \ {conn}, profile)

\* Variant that sends to every socket of the room whatever its role; C17
\* does not hold of it.
pushToAllClients(rs, roomName, profile) ==
    IF ~rs.rooms[roomName].has THEN rs
    ELSE pushEachAnyRole(rs, roomName, DOMAIN rs.rooms[roomName].clients, profile)

pushToEmbedClients(rs, roomName, profile) ==
    IF ~rs.rooms[roomName].has THEN rs
    ELSE pushEach(rs, roomName, DOMAIN rs.rooms[roomName].clients, profile)

\* rawData && typeof rawData === 'string'
IsText(raw) == raw # RawUndefined

\* Variant without the test of observedRooms; C34 does not hold of it.
observeRoomUnguarded(rs, roomName) ==
    IF ~rs.docs[roomName].exists THEN rs
    ELSE LET rawData == rs.docs[roomName].field IN
         [rs EXCEPT !.lastProfileJson[roomName] =
                        IF IsText(rawData) THEN rawData ELSE NoJson,
                    !.docs[roomName].observers = @ + 1,
                    !.observedRooms = @ \cup {roomName}]

observeRoom(rs, roomName) ==
    IF roomName \in rs.observedRooms THEN rs
    ELSE IF ~rs.docs[roomName].exists THEN rs
    ELSE LET rawData == rs.docs[roomName].field IN
         [rs EXCEPT !.lastProfileJson[roomName] =
                        IF IsText(rawData) THEN rawData ELSE NoJson,
                    !.docs[roomName].observers = @ + 1,
                    !.observedRooms = @ \cup {roomName}]

\* Variant of the callback without the comparison with lastProfileJson;
\* C35 does not hold of it.
profileObserverNoCompare(rs, roomName) ==
    LET newRaw == rs.docs[roomName].field IN
    IF ~IsText(newRaw) THEN rs
    ELSE LET rs1 == [rs EXCEPT !.lastProfileJson[roomName] = newRaw] IN
         IF JSONparses(newRaw)
         THEN pushToEmbedClients(rs1, roomName, JSONparse(newRaw))
         ELSE rs1

\* The callback observeRoom gives to profileMap.observe.
profileObserver(rs, roomName) ==
    LET newRaw == rs.docs[roomName].field IN
    IF ~IsText(newRaw) THEN rs
    ELSE IF newRaw # rs.lastProfileJson[roomName]
    THEN LET rs1 == [rs EXCEPT !.lastProfileJson[roomName] = newRaw] IN
         IF JSONparses(newRaw)
         THEN pushToEmbedClients(rs1, roomName, JSONparse(newRaw))
         ELSE rs1
    ELSE rs

\* A change of the profile map calls each callback registered with
\* profileMap.observe; n is the number still to call.
RECURSIVE callObservers(_, _, _)
callObservers(rs, roomName, n) ==
    IF n = 0 THEN rs
    ELSE callObservers(profileObserver(rs, roomName), roomName, n - 1)

\* Variant of the 'connection' handler without the push of the current
\* value; C18 does not hold of it.
onConnectionNoFirstPush(rs, conn, roomName, query) ==
    LET meta == [role |-> roleOf(query)]
        old == IF rs.rooms[roomName].has THEN rs.rooms[roomName].clients ELSE <<>>
        rs1 == [rs EXCEPT
                  !.conns[conn] = [status |-> "accepted", room |-> roomName,
                                   query |-> query, readyState |-> OPEN,
                                   foundRoom |-> rs.rooms[roomName].has,
                                   foundDoc |-> rs.docs[roomName].exists],
                  !.rooms[roomName] =
                      [has |-> TRUE,
                       clients |-> [c \in (DOMAIN old) \cup {conn} |->
                                       IF c = conn THEN meta ELSE old[c]]]]
        rs2 == [rs1 EXCEPT !.docs[roomName].exists = TRUE]
    IN observeRoom(rs2, roomName)

\* wss.on('connection', (conn, req) => {...}) for a socket whose URL names
\* roomName and carries the role parameter query.  setupWSConnection
\* creates the room's document if there is none.
onConnection(rs, conn, roomName, query) ==
    LET meta == [role |-> roleOf(query)]
        old == IF rs.rooms[roomName].has THEN rs.rooms[roomName].clients ELSE <<>>
        rs1 == [rs EXCEPT
                  !.conns[conn] = [status |-> "accepted", room |-> roomName,
                                   query |-> query, readyState |-> OPEN,
                                   foundRoom |-> rs.rooms[roomName].has,
                                   foundDoc |-> rs.docs[roomName].exists],
                  !.rooms[roomName] =
                      [has |-> TRUE,
                       clients |-> [c \in (DOMAIN old) \cup {conn} |->
                                       IF c = conn THEN meta ELSE old[c]]]]
        rs2 == [rs1 EXCEPT !.docs[roomName].exists = TRUE]
        rs3 == observeRoom(rs2, roomName)
        rawData == rs3.docs[roomName].field
    IN IF meta.role = "embed" /\ rs3.docs[roomName].exists
          /\ IsText(rawData) /\ JSONparses(rawData)
       THEN sendJsonMessage(rs3, conn, profileUpdate(roomName, JSONparse(rawData)))
       ELSE rs3

\* Variant of the 'close' handler that keeps the entry of an emptied room;
\* C19 does not hold of it.
onCloseKeepsEntry(rs, conn) ==
    LET roomName == rs.conns[conn].room
        old == rs.rooms[roomName].clients
    IN IF rs.rooms[roomName].has
       THEN [rs EXCEPT !.rooms[roomName].clients =
                            [c \in (DOMAIN old) \ {conn} |-> old[c]]]
       ELSE rs

\* Variant of the 'close' handler that lets go of the document of an
\* emptied room; C20 does not hold of it.
onCloseDropsDoc(rs, conn) ==
    LET roomName == rs.conns[conn].room
        old == rs.rooms[roomName].clients
        left == [c \in (DOMAIN old) \ {conn} |-> old[c]]
    IN IF rs.rooms[roomName].has
       THEN IF DOMAIN left = {}
            THEN [rs EXCEPT !.rooms[roomName] = NoClients,
                            !.docs[roomName].field = RawUndefined]
            ELSE [rs EXCEPT !.rooms[roomName].clients = left]
       ELSE rs

\* conn.on('close', () => {...}); roomName is the closure's.
onClose(rs, conn) ==
    LET roomName == rs.conns[conn].room
        old == rs.rooms[roomName].clients
        left == [c \in (DOMAIN old) \ {conn} |-> old[c]]
    IN IF rs.rooms[roomName].has
       THEN IF DOMAIN left = {}
            THEN [rs EXCEPT !.rooms[roomName] = NoClients]
            ELSE [rs EXCEPT !.rooms[roomName].clients = left]
       ELSE rs

\* A socket is accepted.
Connect(conn, roomName, query) ==
    /\ conns[conn].status = "unused"
    /\ \A k \in ConnIds : k < conn => conns[k].status # "unused"
    /\ RelayCommit(onConnection(RelayStore, conn, roomName, query))
    /\ UNCHANGED edits
    /\ UNCHANGED nonRelayVars

\* The socket stops being open (the peer starts the closing handshake or
\* the link drops); its 'close' event has not been emitted yet.
SocketClosing(conn) ==
    /\ conns[conn].status = "accepted"
    /\ conns[conn].readyState = OPEN
    /\ conns' = [conns EXCEPT ![conn].readyState = CLOSING]
    /\ UNCHANGED <<rooms, observedRooms, docs, lastProfileJson, pushed, edits>>
    /\ UNCHANGED nonRelayVars

\* The socket's 'close' event.
CloseEvent(conn) ==
    /\ conns[conn].status = "accepted"
    /\ RelayCommit(onClose([RelayStore EXCEPT !.conns[conn].status = "closed",
                                              !.conns[conn].readyState = CLOSED],
                           conn))
    /\ UNCHANGED edits
    /\ UNCHANGED nonRelayVars

\* A peer's update, received on the open socket conn, sets the profile
\* field of the room's document; the observers of the map run.
DocUpdate(conn, raw) ==
    /\ edits < MaxEdits
    /\ conns[conn].status = "accepted"
    /\ conns[conn].readyState = OPEN
    /\ LET roomName == conns[conn].room
           rs1 == [RelayStore EXCEPT !.docs[roomName].field = raw]
       IN /\ raw # docs[roomName].field
          /\ RelayCommit(callObservers(rs1, roomName, docs[roomName].observers))
    /\ edits' = edits + 1
    /\ UNCHANGED nonRelayVars

\* A peer's update, received on the open socket conn, sets another key of
\* the profile map and leaves the profile field as it is; the observers of
\* the map run.
DocUpdateOtherKey(conn) ==
    /\ edits < MaxEdits
    /\ conns[conn].status = "accepted"
    /\ conns[conn].readyState = OPEN
    /\ LET roomName == conns[conn].room
           rs1 == [RelayStore EXCEPT !.docs[roomName].other = @ + 1]
       IN RelayCommit(callObservers(rs1, roomName, docs[roomName].observers))
    /\ edits' = edits + 1
    /\ UNCHANGED nonRelayVars

InitRelayServer ==
    /\ conns = [c \in ConnIds |-> UnusedConn]
    /\ rooms = [r \in RoomNames |-> NoClients]
    /\ observedRooms = {}
    /\ docs = [r \in RoomNames |-> NoDoc]
    /\ lastProfileJson = [r \in RoomNames |-> NoJson]
    /\ pushed = [c \in ConnIds |-> <<>>]
    /\ edits = 0

\* ------------------------------------------------------------------- Init
\* The process starts with an empty registry.  The cache directory may
\* hold a file of an earlier run, fresh or stale; each relay is up, stalled
\* or refusing, and holds the profile or not.
InitialCache ==
    {NoEntry,
     [present |-> TRUE, profile |-> "P0", cachedAt |-> 1 - CACHE_TTL_MS, sourceRelay |-> Null]}
    \cup
    {[present |-> TRUE, profile |-> "P0", cachedAt |-> at, sourceRelay |-> "A"] :
        at \in {1 - CACHE_TTL_MS, 0 - CACHE_TTL_MS}}

\* A relay's mode and what it holds for a room.
InitialRelays ==
    {rs \in [Relays -> {<<"up", JSONstringify("P1")>>, <<"up", RawUndefined>>,
                        <<"stalled", RawUndefined>>, <<"refused", RawUndefined>>}] :
        /\ rs["A"][1] # "stalled"
        /\ rs["B"][1] # "refused"}

InitStore ==
    /\ now = 0
    /\ NoConversion
    /\ NoFetch
    /\ NoView
    /\ subs = [s \in SubIds |-> UnusedSub]
    /\ nextSub = 1
    /\ activeSubscriptions = [r \in Rooms |-> 0]
    /\ cache \in [Rooms -> InitialCache]
    /\ disk = [r \in Rooms |-> "ok"]
    /\ delivered = [l \in Listeners |-> <<>>]
    /\ \E rs \in InitialRelays :
        /\ relayMode = [r \in Relays |-> rs[r][1]]
        /\ relayField = [r \in Relays |-> [m \in Rooms |-> rs[r][2]]]
    /\ writes = 0
    /\ calls = [c \in Calls |-> IdleFrame]
    /\ hist = [c \in Calls |-> IdleHist]
    /\ lst = [l \in Listeners |-> UnusedListener]

Init == InitStore /\ InitRelayServer

Next ==
    \/ \E c \in Calls, p \in ProfileIds, u \in UrlLists : GetProfileStart(c, p, u)
    \/ \E c \in Calls : GetProfileResume(c)
    \/ \E l \in Listeners, p \in ProfileIds, u \in UrlLists : Subscribe(l, p, u)
    \/ \E l \in Listeners : Unsubscribe(l)
    \/ \E s \in SubIds : Sync(s)
    \/ \E s \in SubIds : RemoteUpdate(s)
    \/ \E s \in SubIds : RelayPush(s)
    \/ \E s \in SubIds : RelayPushMalformed(s)
    \/ \E s \in SubIds : ConnectionError(s)
    \/ \E s \in SubIds : ReadyTimeout(s)
    \/ \E s \in SubIds : IdleTimeout(s)
    \/ \E s \in SubIds : PollTick(s)
    \/ \E s \in SubIds : PollSettle(s)
    \/ \E r \in Relays, m \in Rooms, raw \in {JSONstringify("P2"), RawBad} : RelayWrite(r, m, raw)
    \/ Advance

Spec == Init /\ [][Next]_vars

\* The manager in front of relays whose documents no editor changes: the
\* calls of the API, the provider events and the timers that create, fill
\* and tear down subs.  Without a change at a relay the poll finds what the
\* sync has delivered.
NextApi ==
    \/ \E c \in Calls, p \in ProfileIds, u \in UrlLists : GetProfileStart(c, p, u)
    \/ \E c \in Calls : GetProfileResume(c)
    \/ \E l \in Listeners, p \in ProfileIds, u \in UrlLists : Subscribe(l, p, u)
    \/ \E l \in Listeners : Unsubscribe(l)
    \/ \E s \in SubIds : Sync(s)
    \/ \E s \in SubIds : ConnectionError(s)
    \/ \E s \in SubIds : ReadyTimeout(s)
    \/ \E s \in SubIds : IdleTimeout(s)
    \/ Advance

SpecApi == Init /\ [][NextApi]_vars

\* The store on a file system that fails: the cache file of the room cannot
\* be read, or cannot be written, from the start.
InitDisk ==
    /\ now = 0
    /\ NoConversion
    /\ NoFetch
    /\ NoView
    /\ subs = [s \in SubIds |-> UnusedSub]
    /\ nextSub = 1
    /\ activeSubscriptions = [r \in Rooms |-> 0]
    /\ cache \in [Rooms -> InitialCache]
    /\ disk \in [Rooms -> DiskKinds \ {"ok"}]
    /\ delivered = [l \in Listeners |-> <<>>]
    /\ \E rs \in {x \in InitialRelays : \A r \in Relays : x[r] # <<"up", RawUndefined>>} :
        /\ relayMode = [r \in Relays |-> rs[r][1]]
        /\ relayField = [r \in Relays |-> [m \in Rooms |-> rs[r][2]]]
    /\ writes = 0
    /\ calls = [c \in Calls |-> IdleFrame]
    /\ hist = [c \in Calls |-> IdleHist]
    /\ lst = [l \in Listeners |-> UnusedListener]
    /\ InitRelayServer

NextDisk ==
    \/ \E c \in Calls, p \in ProfileIds, u \in UrlLists : GetProfileStart(c, p, u)
    \/ \E c \in Calls : GetProfileResume(c)
    \/ \E l \in Listeners, p \in ProfileIds, u \in UrlLists : Subscribe(l, p, u)
    \/ \E s \in SubIds : Sync(s)
    \/ \E s \in SubIds : RemoteUpdate(s)
    \/ \E s \in SubIds : ConnectionError(s)
    \/ \E s \in SubIds : ReadyTimeout(s)
    \/ \E r \in Relays, m \in Rooms, raw \in {JSONstringify("P2"), RawBad} : RelayWrite(r, m, raw)

SpecDisk == InitDisk /\ [][NextDisk]_vars

\* The relay server alone; the store is not running.
StoreOff ==
    /\ now = 0
    /\ subs = [s \in SubIds |-> UnusedSub]
    /\ nextSub = 1
    /\ activeSubscriptions = [r \in Rooms |-> 0]
    /\ cache = [r \in Rooms |-> NoEntry]
    /\ disk = [r \in Rooms |-> "ok"]
    /\ delivered = [l \in Listeners |-> <<>>]
    /\ relayMode = [r \in Relays |-> "refused"]
    /\ relayField = [r \in Relays |-> [m \in Rooms |-> RawUndefined]]
    /\ writes = 0
    /\ calls = [c \in Calls |-> IdleFrame]
    /\ hist = [c \in Calls |-> IdleHist]
    /\ lst = [l \in Listeners |-> UnusedListener]

InitRelay == StoreOff /\ NoConversion /\ NoFetch /\ NoView /\ InitRelayServer

NextRelay ==
    \/ \E conn \in ConnIds, roomName \in RoomNames, query \in RoleParams :
            Connect(conn, roomName, query)
    \/ \E conn \in ConnIds : SocketClosing(conn)
    \/ \E conn \in ConnIds : CloseEvent(conn)
    \/ \E conn \in ConnIds,
          raw \in {JSONstringify("P1"), JSONstringify("P2"), RawBad, RawUndefined} :
            DocUpdate(conn, raw)
    \/ \E conn \in ConnIds : DocUpdateOtherKey(conn)

SpecRelay == InitRelay /\ [][NextRelay]_vars

\* The calls together with every path on which a change of the profile
\* reaches a Replica: the observer, the poll and the relay's push.
NextNotify ==
    \/ \E c \in Calls, profileId \in ProfileIds, relayUrls \in UrlLists :
            GetProfileStart(c, profileId, relayUrls)
    \/ \E c \in Calls : GetProfileResume(c)
    \/ \E l \in Listeners, profileId \in ProfileIds, relayUrls \in UrlLists :
            Subscribe(l, profileId, relayUrls)
    \/ \E l \in Listeners : Unsubscribe(l)
    \/ \E s \in SubIds : Sync(s)
    \/ \E s \in SubIds : RemoteUpdate(s)
    \/ \E s \in SubIds : RelayPush(s)
    \/ \E s \in SubIds : RelayPushMalformed(s)
    \/ \E s \in SubIds : ReadyTimeout(s)
    \/ \E s \in SubIds : PollTick(s)
    \/ \E s \in SubIds : PollSettle(s)
    \/ \E r \in Relays, roomId \in Rooms,
          raw \in {JSONstringify("P2"), RawBad} : RelayWrite(r, roomId, raw)

SpecNotify == Init /\ [][NextNotify]_vars

\* The two conversions between a profile id and a room name, applied one
\* after the other to an id as a caller may pass it: a short id, the room
\* name of one, or the room name of an id that itself starts with the prefix.
IdChars == {"x", "p", "-"}
BareIds == UNION {[1..n -> IdChars] : n \in 1..MaxIdLen}
InputIds ==
    BareIds \cup {ROOM_PREFIX \o b : b \in BareIds}
            \cup {ROOM_PREFIX \o ROOM_PREFIX \o b : b \in BareIds}

ApplyToRoomId ==
    /\ Len(idOps) < MaxOps
    /\ idVals' = Append(idVals, toRoomId(idVals[Len(idVals)]))
    /\ idOps' = Append(idOps, "toRoomId")
    /\ UNCHANGED <<storeVars, relayVars, fetchVars, viewVars>>

ApplyToProfileId ==
    /\ Len(idOps) < MaxOps
    /\ idVals' = Append(idVals, toProfileId(idVals[Len(idVals)]))
    /\ idOps' = Append(idOps, "toProfileId")
    /\ UNCHANGED <<storeVars, relayVars, fetchVars, viewVars>>

InitIds ==
    /\ StoreOff
    /\ NoFetch
    /\ NoView
    /\ InitRelayServer
    /\ idVals \in {<<x>> : x \in InputIds}
    /\ idOps = <<>>

NextIds == ApplyToRoomId \/ ApplyToProfileId

SpecIds == InitIds /\ [][NextIds]_vars

\* Calls of fetchFresh against relays an editor may write to.
NextFetch ==
    \/ \E f \in FetchIds, roomId \in Rooms, relayUrl \in Relays :
            FetchStart(f, roomId, relayUrl)
    \/ \E f \in FetchIds : FetchTimeout(f)
    \/ \E f \in FetchIds : FetchSync(f)
    \/ \E f \in FetchIds : FetchUpdate(f)
    \/ \E f \in FetchIds : FetchConnectionError(f)
    \/ \E r \in Relays, roomId \in Rooms,
          raw \in {JSONstringify("P2"), RawBad} : RelayWrite(r, roomId, raw)

SpecFetch == Init /\ [][NextFetch]_vars

\* A relay that was up starts refusing connections.
RelayRefuses(r) ==
    /\ relayMode[r] = "up"
    /\ relayMode' = [relayMode EXCEPT ![r] = "refused"]
    /\ UNCHANGED <<now, subs, nextSub, activeSubscriptions, cache, disk,
                   delivered, relayField, writes, calls, hist, lst>>
    /\ UNCHANGED nonStoreVars

\* Calls of viewProfile and shareProfile against relays an editor may
\* write to and that may go down.
NextView ==
    \/ \E v \in ViewIds, roomId \in Rooms, relayUrl \in Relays :
            ViewStart(v, roomId, relayUrl)
    \/ \E v \in ViewIds : ViewTimeout(v)
    \/ \E v \in ViewIds : ViewSync(v)
    \/ \E v \in ViewIds : ViewUpdate(v)
    \/ \E v \in ViewIds : ViewCleanup(v)
    \/ \E h \in ShareIds, relayUrl \in Relays : ShareStart(h, relayUrl)
    \/ \E h \in ShareIds : ShareTimeout(h)
    \/ \E h \in ShareIds : ShareSync(h)
    \/ \E h \in ShareIds : ShareConnectionError(h)
    \/ \E h \in ShareIds : ShareCleanup(h)
    \/ \E r \in Relays, roomId \in Rooms,
          raw \in {JSONstringify("P2"), RawBad} : RelayWrite(r, roomId, raw)
    \/ \E r \in Relays : RelayRefuses(r)

SpecView == Init /\ [][NextView]_vars

\* getProfile calls and fetchFresh calls against relays that are up,
\* stalled or refusing, under the scheduling of the event loop: a
\* continuation whose promise has settled runs, a timer that is set fires,
\* and a relay that is up completes the handshake before the ready timer.
\* A call starts only while the sub objects left suffice for the candidates
\* of every call under way.
RECURSIVE StillNeeded(_)
StillNeeded(cs) ==
    IF cs = {} THEN 0
    ELSE LET c == CHOOSE x \in cs : TRUE IN
         (IF calls[c].pc = "await" THEN Len(calls[c].orderedUrls) - calls[c].i ELSE 0)
         + StillNeeded(cs \ {c})

LiveStart(c, profileId, relayUrls) ==
    /\ StillNeeded(Calls) + (IF relayUrls = <<>> THEN 1 ELSE Len(relayUrls))
            <= MaxSubs - (nextSub - 1)
    /\ GetProfileStart(c, profileId, relayUrls)

NextLive ==
    \/ \E c \in Calls, profileId \in ProfileIds, relayUrls \in UrlLists :
            LiveStart(c, profileId, relayUrls)
    \/ \E c \in Calls : GetProfileResume(c)
    \/ \E s \in SubIds : Sync(s)
    \/ \E s \in SubIds : ConnectionError(s)
    \/ \E s \in SubIds : ReadyTimeout(s)
    \/ \E roomId \in Rooms, relayUrl \in Relays : FetchStart(1, roomId, relayUrl)
    \/ FetchTimeout(1)
    \/ FetchSync(1)
    \/ FetchConnectionError(1)

\* What the event loop does on its own: continuations, handshakes of
\* relays that are up, and timers.
LiveProgress ==
    \/ \E c \in Calls : GetProfileResume(c)
    \/ \E s \in SubIds : Sync(s)
    \/ \E s \in SubIds : ReadyTimeout(s)
    \/ FetchTimeout(1)

FairLive == WF_vars(LiveProgress)

\* No cache entry is fresh: a call has to ask the relays.
InitLive == Init /\ \A roomId \in Rooms : ~IsFresh(cache[roomId], now)

SpecLive == InitLive /\ [][NextLive]_vars /\ FairLive

\* ------------------------------------------------------------- properties
Done(c) == calls[c].pc = "done"
Started(c) == calls[c].pc # "idle"
Range(f) == {f[k] : k \in 1..Len(f)}
LiveSubs(roomId) ==
    {s \in SubIds : subs[s].status = "live" /\ subs[s].room = roomId}

\* The cache file the call read was younger than the TTL when it read it.
FreshAtStart(c) ==
    /\ calls[c].cached.present
    /\ hist[c].startNow - calls[c].cached.cachedAt < CACHE_TTL_MS

\* What the resolution order prescribes for call c from what it met.
ExpectedResult(c) ==
    IF Truthy(hist[c].startDoc) THEN hist[c].startDoc
    ELSE IF FreshAtStart(c) THEN calls[c].cached.profile
    ELSE IF Truthy(hist[c].netDoc) THEN hist[c].netDoc
    ELSE IF calls[c].cached.present THEN calls[c].cached.profile
    ELSE Null

\* C1: getProfile returns the result of the first step that succeeds, in
\* the order Replica document, fresh cache entry, document from a relay
\* candidate, cache entry of any age, absent.  A call answered by step 1
\* or 2 tries no candidate, and a call falls back to step 4 or 5 only
\* after it has tried every candidate without getting a document.
C1_ResolutionOrder ==
    \A c \in Calls : Done(c) =>
        /\ calls[c].result = ExpectedResult(c)
        /\ (Truthy(hist[c].startDoc) \/ FreshAtStart(c)) => hist[c].tried = <<>>
        /\ (~Truthy(hist[c].startDoc) /\ ~FreshAtStart(c) /\ ~Truthy(hist[c].netDoc))
            => Len(hist[c].tried) = Len(calls[c].urls)

\* A call that met a stale cache entry and returned the relay's document.
C1_Witness ==
    \E c \in Calls :
        /\ Done(c)
        /\ calls[c].cached.present
        /\ ~FreshAtStart(c)
        /\ hist[c].netDoc = "P1"
        /\ calls[c].result = "P1"
        /\ calls[c].cached.profile = "P0"

\* C2: after any interleaving there is at most one live sub per room, it is
\* the one the registry holds, and the registry holds no destroyed sub; a
\* step creates at most one sub, and only for a room whose registry entry
\* was empty or was torn down earlier in the same step.
C2_OneReplicaPerRoom ==
    /\ [](\A m \in Rooms :
            /\ Cardinality(LiveSubs(m)) <= 1
            /\ \A s \in LiveSubs(m) : activeSubscriptions[m] = s
            /\ activeSubscriptions[m] # 0 => subs[activeSubscriptions[m]].status = "live")
    /\ [][nextSub' # nextSub =>
            /\ nextSub' = nextSub + 1
            /\ LET m == subs'[nextSub].room IN
                /\ activeSubscriptions'[m] = nextSub
                /\ activeSubscriptions[m] # 0 =>
                        subs'[activeSubscriptions[m]].status = "destroyed"]_vars

\* A getProfile call and a subscriber have both been at work on a room, a
\* second sub has been created and exactly one is live.
C2_Witness ==
    \E m \in Rooms, c \in Calls, l \in Listeners :
        /\ Started(c)
        /\ lst[l].state = "subscribed"
        /\ nextSub > 2
        /\ Cardinality(LiveSubs(m)) = 1
        /\ activeSubscriptions[m] = nextSub - 1

\* C3: of two getProfile calls for the same room with the same candidates,
\* the second starting while the first is in flight, within the TTL and
\* with no change of the document at any relay, both return the same
\* content and the second opens no connection.
C3_RepeatCallOpensNothing ==
    \A c1, c2 \in Calls :
        ( /\ c1 < c2
          /\ Done(c1) /\ Done(c2)
          /\ hist[c2].startBusy
          /\ calls[c1].roomId = calls[c2].roomId
          /\ calls[c1].urls = calls[c2].urls
          /\ hist[c2].startNow - hist[c1].startNow < CACHE_TTL_MS
          /\ writes = 0 )
        => /\ calls[c1].result = calls[c2].result
           /\ hist[c2].opened = <<>>

\* The candidates of call c that are up and hold a document for its room.
Holders(c) ==
    {r \in Range(calls[c].urls) :
        /\ relayMode[r] = "up"
        /\ Truthy(extractProfile(relayField[r][calls[c].roomId]))}

\* C4: a getProfile call that has run its network step over candidates of
\* which exactly one holds the document (no relay's field has changed)
\* returns that document; the registered sub is then the one bound to that
\* candidate and no connection to another candidate is open.
C4_RaceFindsTheHolder ==
    \A c \in Calls :
        ( /\ Done(c)
          /\ hist[c].tried # <<>>
          /\ writes = 0
          /\ Cardinality(Holders(c)) = 1 )
        => \A w \in Holders(c) :
            /\ calls[c].result = extractProfile(relayField[w][calls[c].roomId])
            /\ hist[c].doneReg # 0
            /\ subs[hist[c].doneReg].relayUrl = w
            /\ hist[c].doneOpen \subseteq {w}

\* The network step of call c starts with the preferred-relay attempt.
HasFastPath(c) ==
    /\ Truthy(calls[c].cached.sourceRelay)
    /\ calls[c].cached.sourceRelay \in Range(calls[c].urls)

\* C5: a call that got its document from a relay candidate has waited out
\* no other candidate's timeout, the preferred-relay attempt excepted.
C5_NoWaitOnOtherCandidates ==
    \A c \in Calls :
        (Done(c) /\ Truthy(hist[c].netDoc))
        => hist[c].timeouts <= (IF HasFastPath(c) THEN 1 ELSE 0)

\* C6 as stated: when the cache entry records a source relay, the network
\* step attempts that relay first.
C6_SourceRelayFirst ==
    \A c \in Calls :
        (Started(c) /\ hist[c].tried # <<>> /\ Truthy(calls[c].cached.sourceRelay))
        => hist[c].tried[1] = calls[c].cached.sourceRelay

\* C6, amended: when the cache entry records a source relay that is one of
\* the candidates, the network step attempts it first, and the first
\* connection the call opens is to it if the room had no Replica when the
\* call started; a source relay that is not among the candidates is not
\* attempted at all, the candidates are tried in the caller's order.
C6_SourceRelayFirstIfCandidate ==
    \A c \in Calls :
        (Started(c) /\ hist[c].tried # <<>> /\ Truthy(calls[c].cached.sourceRelay))
        => IF calls[c].cached.sourceRelay \in Range(calls[c].urls)
           THEN /\ hist[c].tried[1] = calls[c].cached.sourceRelay
                /\ hist[c].startReg = 0 =>
                        /\ hist[c].opened # <<>>
                        /\ hist[c].opened[1] = calls[c].cached.sourceRelay
           ELSE /\ calls[c].cached.sourceRelay \notin Range(hist[c].tried)
                /\ calls[c].cached.sourceRelay \notin Range(hist[c].opened)
                /\ hist[c].tried = SubSeq(calls[c].urls, 1, Len(hist[c].tried))

\* A call given <<B, A>> with a stale entry from A has connected to A first.
C6_Witness ==
    \E c \in Calls :
        /\ Started(c)
        /\ ~FreshAtStart(c)
        /\ calls[c].cached.sourceRelay = "A"
        /\ calls[c].urls = <<"B", "A">>
        /\ hist[c].opened # <<>>
        /\ hist[c].opened[1] = "A"

\* C7: a call that read a cache entry for the room does not return absent.
C7_CacheEntryNeverAbsent ==
    \A c \in Calls :
        (Done(c) /\ calls[c].cached.present) => calls[c].result \in Docs

\* A call with a stale entry whose two candidates both gave nothing has
\* returned the stale document.
C7_Witness ==
    \E c \in Calls :
        /\ Done(c)
        /\ calls[c].cached.present
        /\ ~FreshAtStart(c)
        /\ Len(hist[c].tried) = 2
        /\ ~Truthy(hist[c].netDoc)
        /\ calls[c].result = "P0"

\* Call c met no Replica document and a fresh cache entry.
FreshHit(c) == Started(c) /\ ~Truthy(hist[c].startDoc) /\ FreshAtStart(c)

\* The relay the fresh-cache step binds a new Replica to: the entry's
\* source relay, or the first candidate when it records none.
FreshTarget(c) ==
    IF Truthy(calls[c].cached.sourceRelay) THEN calls[c].cached.sourceRelay
    ELSE IF calls[c].urls # <<>> THEN calls[c].urls[1] ELSE Null

\* C8 as stated: on a fresh cache hit the call returns the cached document
\* without waiting, and on return a Replica of the room is registered that
\* is bound to the entry's source relay (or the first candidate).
C8_FreshHitBindsSourceRelay ==
    \A c \in Calls : FreshHit(c) =>
        /\ Done(c)
        /\ calls[c].result = calls[c].cached.profile
        /\ hist[c].doneReg # 0
        /\ subs[hist[c].doneReg].relayUrl = FreshTarget(c)

\* C8, amended: on a fresh cache hit the call returns the cached document
\* in the step it was made in, awaiting nothing.  On return, a Replica the
\* room already had is still the registered one and the call has opened
\* nothing; otherwise the call has opened one connection, to the entry's
\* source relay (or the first candidate when it records none), and that
\* sub is registered; with neither a source relay nor a candidate the
\* room has no Replica.
C8_FreshHitKeepsOrBindsReplica ==
    \A c \in Calls : FreshHit(c) =>
        /\ Done(c)
        /\ calls[c].result = calls[c].cached.profile
        /\ hist[c].awaits = 0
        /\ hist[c].tried = <<>>
        /\ IF hist[c].startReg # 0
           THEN hist[c].doneReg = hist[c].startReg /\ hist[c].opened = <<>>
           ELSE IF Truthy(FreshTarget(c))
           THEN /\ hist[c].doneReg # 0
                /\ subs[hist[c].doneReg].relayUrl = FreshTarget(c)
                /\ hist[c].opened = <<FreshTarget(c)>>
           ELSE hist[c].doneReg = 0 /\ hist[c].opened = <<>>

\* A fresh hit with an entry from A has returned while the room's Replica,
\* created by a subscriber, is bound to B.
C8_Witness ==
    \E c \in Calls :
        /\ FreshHit(c)
        /\ Done(c)
        /\ calls[c].cached.sourceRelay = "A"
        /\ hist[c].startReg # 0
        /\ hist[c].doneReg = hist[c].startReg
        /\ subs[hist[c].doneReg].relayUrl = "B"

\* The sub whose document the ready future of subscriber l stands for: the
\* one subscribe created, or the one it found registered.
ReadySubOf(l) ==
    IF lst[l].readySub # 0 THEN lst[l].readySub ELSE lst[l].foundSub

\* C9: the ready future of a subscriber is resolved as soon as the Replica
\* it subscribed to has a document, and it is resolved with absent only by
\* the 10 s timer.
C9_ReadyBySnapshotOrGrace ==
    \A l \in Listeners : lst[l].state # "unused" =>
        /\ (subs[ReadySubOf(l)].status = "live" /\ Truthy(subs[ReadySubOf(l)].profile))
            => ListenerReady(l).st = "resolved"
        /\ (ListenerReady(l).st = "resolved" /\ ~Truthy(ListenerReady(l).val))
            => ListenerReady(l).by = "timeout"

\* C10: a subscribe on a room that has a Replica creates no sub, leaves the
\* registry as it is and adds its listener to that Replica, whatever the
\* candidates it is given; and no step changes the relay or the room a sub
\* is bound to.
C10_SubscribeReuses ==
    [][ /\ \A l \in Listeners, m \in Rooms :
            ( /\ lst[l].state = "unused"
              /\ lst'[l].state = "subscribed"
              /\ lst'[l].roomId = m
              /\ activeSubscriptions[m] # 0 )
            => /\ nextSub' = nextSub
               /\ activeSubscriptions' = activeSubscriptions
               /\ l \in subs'[activeSubscriptions[m]].listeners
               /\ subs'[activeSubscriptions[m]].status = "live"
        /\ \A s \in SubIds :
            subs[s].status # "unused"
            => /\ subs'[s].relayUrl = subs[s].relayUrl
               /\ subs'[s].room = subs[s].room ]_vars

\* A subscriber has been attached to a Replica that a getProfile call had
\* bound to A: no subscribe names A first.
C10_Witness ==
    \E l \in Listeners :
        /\ lst[l].state = "subscribed"
        /\ lst[l].readySub = 0
        /\ lst[l].foundSub # 0
        /\ subs[lst[l].foundSub].status = "live"
        /\ subs[lst[l].foundSub].relayUrl = "A"
        /\ l \in subs[lst[l].foundSub].listeners

\* ------------------------------------------------------------------- C11
\* The Replica the room has registered, 0 if none.
Registered(s) == subs[s].status = "live" /\ activeSubscriptions[subs[s].room] = s

\* A step changes the document of the registered Replica s.
Changes(s) ==
    /\ Registered(s)
    /\ activeSubscriptions'[subs[s].room] = s
    /\ subs'[s].profile # subs[s].profile

\* C11: the unsubscribe of one subscriber takes only that subscriber's
\* Listener out of a listener set, every other Listener stays in the set it
\* is in, and on the next change of the Replica's document every Listener
\* left in the set is invoked with the new value.
C11_UnsubscribeRemovesOnlyOwn ==
    [][/\ \A l \in Listeners :
            (lst[l].state = "subscribed" /\ lst'[l].state = "unsubscribed") =>
                \A s \in SubIds :
                    /\ subs'[s].listeners \cup {l} = subs[s].listeners \cup {l}
                    /\ Registered(s) => l \notin subs'[s].listeners
       /\ \A s \in SubIds :
            (/\ Changes(s)
             /\ \E k \in Listeners : /\ lst[k].state = "unsubscribed"
                                      /\ k \notin subs[s].listeners
                                      /\ s \in {lst[k].readySub, lst[k].foundSub}) =>
                \A l \in subs[s].listeners :
                    delivered'[l] = Append(delivered[l], subs'[s].profile)
      ]_vars

\* Two Listeners were on one Replica, the first has unsubscribed without
\* having been invoked, and the second has been invoked since.
C11_Witness ==
    \E s \in SubIds :
        /\ Registered(s)
        /\ lst[1].state = "unsubscribed" /\ lst[1].readySub = s
        /\ lst[2].state = "subscribed" /\ lst[2].foundSub = s
        /\ subs[s].listeners = {2}
        /\ delivered[1] = <<>>
        /\ delivered[2] # <<>>

\* ------------------------------------------------------------------- C12
\* The Listeners notifyListeners finds for a room: those of the Replica the
\* registry holds for it.
RegisteredListeners(roomId) ==
    IF activeSubscriptions[roomId] = 0 THEN {}
    ELSE subs[activeSubscriptions[roomId]].listeners

\* C12: whenever a step (of the observer, of the poll or of the push) gives
\* a Replica a document different from the one it had, the same step
\* writes the CacheEntry of the room with the new value, the current time
\* and the relay the Replica is bound to, and invokes every Listener
\* registered for the room once with the new value.
C12_ChangeHasThreeEffects ==
    [][\A s \in SubIds :
        subs'[s].profile # subs[s].profile =>
            /\ Truthy(subs'[s].profile)
            /\ cache'[subs[s].room] =
                    [present |-> TRUE, profile |-> subs'[s].profile,
                     cachedAt |-> now, sourceRelay |-> subs[s].relayUrl]
            /\ \A l \in RegisteredListeners(subs[s].room) :
                    delivered'[l] = Append(delivered[l], subs'[s].profile)
            /\ \A l \in Listeners \ RegisteredListeners(subs[s].room) :
                    delivered'[l] = delivered[l]
      ]_vars

\* A Replica with two Listeners has taken a first value on one path and a
\* second value later, and both Listeners have been invoked with both.
C12_Witness ==
    \E s \in SubIds :
        /\ Registered(s)
        /\ subs[s].listeners = {1, 2}
        /\ subs[s].profile = "P2"
        /\ delivered[1] = <<"P1", "P2">>
        /\ delivered[2] = <<"P1", "P2">>
        /\ cache[subs[s].room].profile = "P2"
        /\ cache[subs[s].room].sourceRelay = subs[s].relayUrl

\* ------------------------------------------------------------------- C13
\* C13: a Listener is notified once per value the document takes, whichever
\* paths detect the change: no Listener is invoked twice in a row with the
\* same value.
C13_OncePerValue ==
    \A l \in Listeners :
        \A i \in 1..(Len(delivered[l]) - 1) : delivered[l][i] # delivered[l][i + 1]

\* ------------------------------------------------------------------- C14
\* C14: in a step that invokes a throwing Listener of the room's Replica
\* with a value, every other Listener of that Replica is invoked with the
\* same value, and the Replica stays registered and live with the same
\* listener set, idle timer and polling timer.
C14_ThrowingListenerIsolated ==
    [][\A s \in SubIds : \A t \in Throwing \cap subs[s].listeners :
        (Registered(s) /\ delivered'[t] # delivered[t]) =>
            /\ \A l \in subs[s].listeners :
                    /\ Len(delivered'[l]) = Len(delivered[l]) + 1
                    /\ delivered'[l] =
                          Append(delivered[l], delivered'[t][Len(delivered'[t])])
            /\ activeSubscriptions'[subs[s].room] = s
            /\ subs'[s].status = "live"
            /\ subs'[s].listeners = subs[s].listeners
            /\ subs'[s].idleTimer = subs[s].idleTimer
            /\ subs'[s].pollTimer = subs[s].pollTimer
            /\ subs'[s].connError = subs[s].connError
            /\ subs[s].synced => subs'[s].synced
      ]_vars

\* The throwing Listener and a Listener after it in the set have both been
\* invoked, with the same values.
C14_Witness ==
    \E s \in SubIds : \E t \in Throwing : \E l \in Listeners :
        /\ Registered(s)
        /\ t < l
        /\ {t, l} \subseteq subs[s].listeners
        /\ delivered[t] # <<>>
        /\ delivered[l] = delivered[t]

\* ------------------------------------------------------------------- C15
\* The Listeners that were attached to sub s.
ListenersOf(s) ==
    {l \in Listeners : lst[l].state # "unused" /\ s \in {lst[l].readySub, lst[l].foundSub}}

\* When the last of the Listeners of sub s unsubscribed: defined when all
\* of them have and the listener set is empty.
LastUnsubscribe(s) ==
    CHOOSE t \in {lst[l].unsubscribedAt : l \in ListenersOf(s)} :
        \A l \in ListenersOf(s) : lst[l].unsubscribedAt <= t

Abandoned(s) ==
    /\ subs[s].status = "live"
    /\ subs[s].listeners = {}
    /\ ListenersOf(s) # {}
    /\ \A l \in ListenersOf(s) : lst[l].state = "unsubscribed"

IdleExpiry(s) ==
    /\ subs[s].idleTimer # NoTimer
    /\ now >= subs[s].idleTimer
    /\ subs'[s].idleTimer = NoTimer
    /\ calls' = calls
    /\ lst' = lst

\* C16: the expiry of a Replica's idle timer with an empty listener set
\* takes the Replica out of the registry, closes its connection and stops
\* its polling timer; an expiry with a Listener in the set changes nothing
\* of the Replica but the spent timer; and either way the cache and the
\* Listeners are not touched.
C16_IdleExpiryOnlyWithoutListeners ==
    [][\A s \in SubIds :
        IdleExpiry(s) =>
            /\ Registered(s)
            /\ cache' = cache
            /\ delivered' = delivered
            /\ \A o \in SubIds \ {s} : subs'[o] = subs[o]
            /\ IF subs[s].listeners = {}
               THEN /\ activeSubscriptions'[subs[s].room] = 0
                    /\ subs'[s].status = "destroyed"
                    /\ ~subs'[s].synced
                    /\ ~subs'[s].pollTimer
               ELSE /\ activeSubscriptions' = activeSubscriptions
                    /\ subs'[s] = [subs[s] EXCEPT !.idleTimer = NoTimer]
      ]_vars

\* The idle timer armed by the second subscriber's reuse of the Replica
\* has expired while Listeners were attached, and the Replica is there.
C16_Witness ==
    \E s \in SubIds :
        /\ Registered(s)
        /\ lst[2].foundSub = s
        /\ 2 \in subs[s].listeners
        /\ subs[s].idleTimer = NoTimer
        /\ subs[s].pollTimer
        /\ now = SUBSCRIPTION_IDLE_TIMEOUT_MS

\* ------------------------------------------------------------------- C17
\* The sockets of a room the relay can send to: accepted, not yet closed.
Accepted(roomName) ==
    {c \in ConnIds : conns[c].status = "accepted" /\ conns[c].room = roomName}

\* The step changes the field of the room's document to a value that
\* parses and differs from the last raw value the room's observer saw.
Detects(roomName) ==
    /\ docs'[roomName].field # docs[roomName].field
    /\ roomName \in observedRooms
    /\ IsText(docs'[roomName].field)
    /\ JSONparses(docs'[roomName].field)
    /\ docs'[roomName].field # lastProfileJson[roomName]

\* C17: in a step in which the relay detects a change of a room's content,
\* every open socket of that room with role embed is sent one push with the
\* room's name and the new value; and whenever a socket is sent anything it
\* is one push, the socket has role embed, is open and not closed, and the
\* push names the socket's own room.
C17_PushToObserversOnly ==
    [][/\ \A r \in RoomNames :
            Detects(r) =>
                \A c \in Accepted(r) :
                    (roleOf(conns[c].query) = "embed" /\ conns[c].readyState = OPEN) =>
                        pushed'[c] = Append(pushed[c],
                                       profileUpdate(r, JSONparse(docs'[r].field)))
       /\ \A c \in ConnIds :
            pushed'[c] # pushed[c] =>
                /\ Len(pushed'[c]) = Len(pushed[c]) + 1
                /\ SubSeq(pushed'[c], 1, Len(pushed[c])) = pushed[c]
                /\ roleOf(conns'[c].query) = "embed"
                /\ conns'[c].status = "accepted"
                /\ conns'[c].readyState = OPEN
                /\ pushed'[c][Len(pushed'[c])].room = conns'[c].room
                /\ pushed'[c][Len(pushed'[c])].profile =
                        JSONparse(docs'[conns'[c].room].field)
      ]_vars

\* An embed socket of r1 has been pushed two values, the second one by a
\* change, while an app socket of r1 and an embed socket of r2 have been
\* sent nothing.
C17_Witness ==
    /\ conns[1].status = "accepted" /\ conns[1].room = "r1"
    /\ roleOf(conns[1].query) = "app"
    /\ conns[2].status = "accepted" /\ conns[2].room = "r1"
    /\ roleOf(conns[2].query) = "embed"
    /\ conns[3].status = "accepted" /\ conns[3].room = "r2"
    /\ roleOf(conns[3].query) = "embed"
    /\ Len(pushed[2]) = 2
    /\ pushed[1] = <<>>
    /\ pushed[3] = <<>>

\* ------------------------------------------------------------------- C18
\* The step accepts socket c.
Connects(c) == conns[c].status = "unused" /\ conns'[c].status = "accepted"

\* C18: a socket that connects with role embed to a room whose document
\* holds a value is sent that value as its first push in the step that
\* accepts it; one that connects to a room without a value is sent nothing
\* in that step, and nothing later except in a step that changes the room's
\* document.
C18_FirstPushAtConnect ==
    [][\A c \in ConnIds :
        /\ (Connects(c) /\ roleOf(conns'[c].query) = "embed") =>
                LET r == conns'[c].room
                    raw == docs[r].field
                IN /\ docs'[r].field = raw
                   /\ IF docs[r].exists /\ IsText(raw) /\ JSONparses(raw)
                      THEN pushed'[c] = <<profileUpdate(r, JSONparse(raw))>>
                      ELSE pushed'[c] = <<>>
        /\ (conns[c].status = "accepted" /\ pushed'[c] # pushed[c]) =>
                docs'[conns[c].room].field # docs[conns[c].room].field
      ]_vars

\* An embed socket found the room's document with a value when it
\* connected and holds that value as its only push, and no change has been
\* made since the value was written.
C18_Witness ==
    \E c \in ConnIds :
        /\ conns[c].status = "accepted"
        /\ roleOf(conns[c].query) = "embed"
        /\ conns[c].foundDoc
        /\ edits = 1
        /\ c > 1
        /\ roleOf(conns[1].query) = "app"
        /\ pushed[c] = <<profileUpdate(conns[c].room, "P1")>>
        /\ docs[conns[c].room].field = JSONstringify("P1")

\* ------------------------------------------------------------------- C19
\* C19: a room has an entry in the rooms map exactly when a socket of the
\* room is accepted and not yet closed; the entry's keys are exactly those
\* sockets, each with the role it connected with; no entry is empty.
C19_RegistryFollowsConnections ==
    \A r \in RoomNames :
        /\ rooms[r].has <=> (Accepted(r) # {})
        /\ DOMAIN rooms[r].clients = Accepted(r)
        /\ \A c \in Accepted(r) : rooms[r].clients[c].role = roleOf(conns[c].query)
        /\ rooms[r].has => DOMAIN rooms[r].clients # {}

\* A room went from no entry to an entry and back, and has an entry again
\* for a later socket.
C19_Witness ==
    \E r \in RoomNames :
        /\ conns[1].status = "closed" /\ conns[1].room = r
        /\ conns[2].status = "closed" /\ conns[2].room = r
        /\ conns[3].status = "accepted" /\ conns[3].room = r
        /\ ~conns[3].foundRoom
        /\ conns[3].foundDoc
        /\ rooms[r].has

\* ------------------------------------------------------------------- C20
\* C20: the 'close' event changes neither a document nor an observer, a
\* room once observed stays observed and its document stays; so a socket
\* that connects with role embed to a room that has a document but no
\* entry is sent the document's value at once, and every change the relay
\* detects in a room that was re-entered this way is pushed to the room's
\* open embed sockets.
C20_DocumentOutlivesConnections ==
    [][/\ \A r \in RoomNames :
            /\ r \in observedRooms => r \in observedRooms'
            /\ docs[r].exists => docs'[r].exists
            /\ (\E c \in ConnIds : conns[c].status = "accepted"
                                   /\ conns'[c].status = "closed") =>
                    /\ docs'[r] = docs[r]
                    /\ lastProfileJson'[r] = lastProfileJson[r]
       /\ \A c \in ConnIds :
            (/\ Connects(c)
             /\ roleOf(conns'[c].query) = "embed"
             /\ docs[conns'[c].room].exists
             /\ ~rooms[conns'[c].room].has) =>
                LET r == conns'[c].room IN
                /\ r \in observedRooms
                /\ JSONparses(docs[r].field) =>
                        pushed'[c] = <<profileUpdate(r, JSONparse(docs[r].field))>>
       /\ \A c \in ConnIds :
            (/\ conns[c].status = "accepted"
             /\ conns[c].foundDoc /\ ~conns[c].foundRoom
             /\ roleOf(conns[c].query) = "embed"
             /\ conns[c].readyState = OPEN
             /\ Detects(conns[c].room)) =>
                pushed'[c] = Append(pushed[c],
                    profileUpdate(conns[c].room, JSONparse(docs'[conns[c].room].field)))
      ]_vars

\* An embed socket connected to a room that every socket had left, was
\* pushed the value left there, and was pushed the next change.
C20_Witness ==
    \E c \in ConnIds :
        /\ conns[c].status = "accepted"
        /\ roleOf(conns[c].query) = "embed"
        /\ conns[c].foundDoc
        /\ ~conns[c].foundRoom
        /\ pushed[c] = <<profileUpdate(conns[c].room, "P1"),
                         profileUpdate(conns[c].room, "P2")>>

\* ------------------------------------------------------------------- C21
\* C21: the step that accepts a socket records its role in the room's map,
\* embed exactly when the role parameter of its URL is 'embed' and app
\* otherwise, and while the socket stays in the map no step changes the
\* role recorded for it.
C21_RoleFixedAtConnect ==
    [][\A c \in ConnIds :
        /\ Connects(c) =>
            LET r == conns'[c].room IN
            /\ c \in DOMAIN rooms'[r].clients
            /\ rooms'[r].clients[c].role \in {"embed", "app"}
            /\ rooms'[r].clients[c].role = "embed" <=> conns'[c].query = "embed"
        /\ \A r \in RoomNames :
            (c \in DOMAIN rooms[r].clients /\ c \in DOMAIN rooms'[r].clients) =>
                rooms'[r].clients[c].role = rooms[r].clients[c].role
        /\ conns[c].status = "accepted" =>
                (conns'[c].query = conns[c].query /\ conns'[c].room = conns[c].room)
      ]_vars

\* An embed socket and an app socket share a room after a third socket of
\* the room has closed and the room's document has changed twice, and each
\* still has the role it connected with.
C21_Witness ==
    \E r \in RoomNames :
        /\ conns[1].status = "closed" /\ conns[1].room = r
        /\ conns[2].status = "accepted" /\ conns[2].room = r
        /\ conns[2].query = "embed"
        /\ conns[3].status = "accepted" /\ conns[3].room = r
        /\ conns[3].query = "app"
        /\ edits = MaxEdits
        /\ rooms[r].clients[2].role = "embed"
        /\ rooms[r].clients[3].role = "app"

\* ------------------------------------------------------------------- C22
\* What a call that finds no cache entry returns: the Replica's document
\* it met, else the document a candidate gave it, else absent.
MissResult(c) ==
    IF Truthy(hist[c].startDoc) THEN hist[c].startDoc
    ELSE IF Truthy(hist[c].netDoc) THEN hist[c].netDoc
    ELSE Null

\* C22: a getProfile call whose cache file could not be read or parsed
\* goes on with no cache entry, as a call without a file does: it tries
\* the candidates unless a Replica answers at once, never answers from the
\* cache, and returns what a call on a miss returns.
C22_UnreadableCacheIsAMiss ==
    \A c \in Calls :
        (Started(c) /\ ReadFails(hist[c].startDisk)) =>
            /\ calls[c].cached = NoEntry
            /\ Done(c) =>
                /\ calls[c].result = MissResult(c)
                /\ hist[c].via \in {"replica", "nourls", "network", "absent"}
                /\ (~Truthy(hist[c].startDoc) /\ calls[c].urls # <<>>) =>
                        hist[c].tried # <<>>

\* A call met a cache file that holds a fresh entry but cannot be read,
\* and returned the document of a relay.
C22_Witness ==
    \E c \in Calls :
        /\ Done(c)
        /\ hist[c].startDisk = "unreadable"
        /\ cache[calls[c].roomId].present
        /\ cache[calls[c].roomId].profile = "P0"
        /\ hist[c].startNow - cache[calls[c].roomId].cachedAt < CACHE_TTL_MS
        /\ hist[c].via = "network"
        /\ calls[c].result = "P1"

\* ------------------------------------------------------------------- C23
\* C23: while the cache file of a room cannot be written, a step that
\* gives a Replica of the room a new document leaves the file and the file
\* system as they are and still invokes every Listener registered for the
\* room once with the new document; and a getProfile call that got a
\* document from a candidate returns that document.
C23_FailedWriteSwallowed ==
    /\ [](\A c \in Calls :
            (Done(c) /\ hist[c].via = "network") =>
                (Truthy(hist[c].netDoc) /\ calls[c].result = hist[c].netDoc))
    /\ [][\A s \in SubIds :
            (subs'[s].profile # subs[s].profile /\ WriteFails(disk[subs[s].room])) =>
                /\ Truthy(subs'[s].profile)
                /\ cache' = cache
                /\ disk' = disk
                /\ \A l \in RegisteredListeners(subs[s].room) :
                        delivered'[l] = Append(delivered[l], subs'[s].profile)
          ]_vars

\* On a file system that refuses the write, a call has returned the
\* relay's document, a Listener has been invoked with a later change, and
\* the cache file is what it was at the start.
C23_Witness ==
    \E c \in Calls : \E r \in Rooms :
        /\ WriteFails(disk[r])
        /\ Done(c) /\ calls[c].roomId = r
        /\ hist[c].via = "network"
        /\ calls[c].result = "P1"
        /\ delivered[1] = <<"P2">>
        /\ cache[r].profile \in {Null, "P0"}

\* ------------------------------------------------------------------- C24
\* C24: toRoomId maps an id without the prefix, and the room name made of
\* the prefix and that id, to that same room name; applied to its own
\* result it changes nothing; and toProfileId applied to the toRoomId of an
\* id without the prefix gives the id back.
C24_RoomIdDerivation ==
    /\ \A b \in BareIds :
            (Len(idOps) >= 1 /\ idOps[1] = "toRoomId"
                /\ idVals[1] \in {b, ROOM_PREFIX \o b}) =>
                    idVals[2] = ROOM_PREFIX \o b
    /\ \A i \in 1..Len(idOps) :
            /\ (i > 1 /\ idOps[i] = "toRoomId" /\ idOps[i - 1] = "toRoomId") =>
                    idVals[i + 1] = idVals[i]
            /\ (i > 1 /\ idOps[i] = "toProfileId" /\ idOps[i - 1] = "toRoomId"
                    /\ ~StartsWith(idVals[i - 1], ROOM_PREFIX)) =>
                    idVals[i + 1] = idVals[i - 1]

\* A short id has been turned into its room name, turned again, and
\* turned back into the id.
C24_Witness ==
    /\ idOps = <<"toRoomId", "toRoomId", "toProfileId">>
    /\ idVals = << <<"p", "-">>, ROOM_PREFIX \o <<"p", "-">>,
                   ROOM_PREFIX \o <<"p", "-">>, <<"p", "-">> >>

\* ------------------------------------------------------------------- C25
\* C25: a Listener registered by subscribe and not yet unsubscribed is in
\* the listener set of the Replica registered for its room.
C25_ListenerStaysRegistered ==
    \A l \in Listeners :
        lst[l].state = "subscribed" => l \in RegisteredListeners(lst[l].roomId)

\* ------------------------------------------------------------------- C26
\* C26: a step of a getProfile call that tears a Replica down tears down
\* the Replica that this call created and is waiting on, and never a
\* Replica another call is waiting on.
C26_TearsDownOnlyItsOwn ==
    [][\A c \in Calls : \A s \in SubIds :
            (calls'[c] # calls[c] /\ subs[s].status = "live"
                /\ subs'[s].status # "live") =>
                    /\ calls[c].awaitSub = s
                    /\ \A d \in Calls \ {c} :
                            ~(calls[d].pc = "await" /\ calls[d].awaitSub = s)
      ]_vars

\* ------------------------------------------------------------------- C27
\* C27: when a getProfile call returns after its candidates gave no
\* document (with the stale cache entry or with nothing), no Replica is
\* registered for the room, and every Replica the call created is closed
\* with no idle timer, polling timer, ready timer or poll fetch left.
C27_NothingLeftAfterFailure ==
    [][\A c \in Calls :
            (calls[c].pc # "done" /\ calls'[c].pc = "done"
                /\ hist'[c].via \in {"stale", "absent"}) =>
                    /\ activeSubscriptions'[calls'[c].roomId] = 0
                    /\ \A s \in hist'[c].made :
                            /\ subs'[s].status = "destroyed"
                            /\ subs'[s].idleTimer = NoTimer
                            /\ ~subs'[s].pollTimer
                            /\ ~subs'[s].readyTimer
                            /\ ~subs'[s].fetching
      ]_vars

\* A call has created a Replica for each of two candidates, waited for
\* both in vain and returned nothing.
C27_Witness ==
    \E c \in Calls :
        /\ Done(c)
        /\ hist[c].via = "absent"
        /\ Cardinality(hist[c].made) = 2
        /\ hist[c].timeouts = 2
        /\ activeSubscriptions[calls[c].roomId] = 0

\* ------------------------------------------------------------------- C30
\* C30: a step that starts a poll fetch for a Replica is a tick of that
\* Replica's own polling timer while the Replica is registered for its room
\* and has at least one Listener; with an empty listener set no fetch
\* starts.
C30_PollOnlyWithListeners ==
    [][\A s \in SubIds :
            (~subs[s].fetching /\ subs'[s].fetching) =>
                /\ Registered(s)
                /\ subs[s].pollTimer
                /\ subs[s].listeners # {}
      ]_vars

\* A poll fetch is under way for a Replica with a Listener, while another
\* Replica's ticks, without a Listener, have started none.
C30_Witness ==
    \E s \in SubIds :
        /\ subs[s].fetching
        /\ Registered(s)
        /\ subs[s].listeners # {}

\* ------------------------------------------------------------------- C29
\* C29: resolve() of a fetchFresh call runs at most once; it has run
\* exactly once as soon as the `resolved` flag is set or the timer has
\* fired; and when it ran the timer was cleared, the provider
\* disconnected and the temporary doc destroyed.
C29_FetchSettlesOnce ==
    \A f \in FetchIds :
        /\ Len(fetches[f].settled) <= 1
        /\ (fetches[f].status = "open"
                /\ (fetches[f].resolved \/ ~fetches[f].timeoutId)) =>
                    Len(fetches[f].settled) = 1
        /\ \A k \in 1..Len(fetches[f].settled) :
                /\ ~fetches[f].settled[k].timeoutId
                /\ ~fetches[f].settled[k].connected
                /\ ~fetches[f].settled[k].docLive

\* One fetch has delivered a document read from its relay and one has
\* delivered null, each once, and nothing of either is still held.
C29_Witness ==
    \E f, g \in FetchIds :
        /\ Len(fetches[f].settled) = 1 /\ Truthy(fetches[f].settled[1].val)
        /\ Len(fetches[g].settled) = 1 /\ ~Truthy(fetches[g].settled[1].val)
        /\ \A h \in {f, g} : ~fetches[h].timeoutId /\ ~fetches[h].connected

\* ------------------------------------------------------------------- C28
\* C28: whatever the relays do, at every moment there is a later moment
\* at which no getProfile call is waiting for a candidate and no fetchFresh
\* call is unsettled: a call that waits returns (a returned call stays
\* returned), and a fetch that was made settles.
C28_CallsAndFetchesEnd ==
    []<>(/\ \A c \in Calls : calls[c].pc # "await"
         /\ fetches[1].status = "open" => Len(fetches[1].settled) = 1)

\* A call has waited out the ready timer of two candidates and returned
\* nothing, and a fetch has been settled with null.
C28_Witness ==
    /\ \E c \in Calls : Done(c) /\ hist[c].timeouts = 2 /\ calls[c].result = Null
    /\ Len(fetches[1].settled) = 1
    /\ fetches[1].settled[1].val = Null

\* ------------------------------------------------------------------- C31
\* C31: a step in which the poll fetch of a torn-down Replica completes
\* leaves every cache entry, the document of every living Replica and the
\* log of every Listener as they are.
C31_LatePollHasNoEffect ==
    [][\A s \in SubIds :
            (subs[s].fetching /\ ~subs'[s].fetching /\ subs[s].status = "destroyed") =>
                /\ cache' = cache
                /\ delivered' = delivered
                /\ \A x \in SubIds :
                        subs[x].status = "live" => subs'[x].profile = subs[x].profile
      ]_vars

\* ------------------------------------------------------------------- C32
\* C32: a step in which a Replica meets a payload that does not parse (the
\* map's observer on the synced field, the poll's fetch, a pushed text
\* frame) leaves the document of every Replica, every cache entry and the
\* log of every Listener as they are.
MeetsMalformed(s) ==
    \/ subs[s].field # RawBad /\ subs'[s].field = RawBad
    \/ /\ subs[s].fetching /\ ~subs'[s].fetching
       /\ relayMode[subs[s].relayUrl] = "up"
       /\ relayField[subs[s].relayUrl][subs[s].room] = RawBad
    \/ ~subs[s].pushErrors /\ subs'[s].pushErrors

C32_MalformedChangesNothing ==
    [][\A s \in SubIds :
            MeetsMalformed(s) =>
                /\ \A x \in SubIds : subs'[x].profile = subs[x].profile
                /\ cache' = cache
                /\ delivered' = delivered
      ]_vars

\* A Replica that knows P1 has seen the field turn into text that does not
\* parse, on its observer and in a pushed frame, and still holds P1, as
\* does the cache, and its Listener has heard nothing more.
C32_Witness ==
    \E s \in SubIds :
        /\ Registered(s)
        /\ subs[s].field = RawBad
        /\ subs[s].pushErrors
        /\ subs[s].profile = "P1"
        /\ cache[subs[s].room].profile = "P1"
        /\ subs[s].listeners # {}
        /\ \A l \in subs[s].listeners : Len(delivered[l]) <= 1

\* ------------------------------------------------------------------- C33
\* C33: a step in which the observed field of a room turns into text that
\* does not parse sends no push and leaves the relay's last observed value
\* of the room as it is.
C33_MalformedKeepsLastGood ==
    [][\A r \in RoomNames :
            (r \in observedRooms /\ docs'[r].field # docs[r].field
                /\ IsText(docs'[r].field) /\ ~JSONparses(docs'[r].field)) =>
                    /\ pushed' = pushed
                    /\ lastProfileJson'[r] = lastProfileJson[r]
      ]_vars

\* ------------------------------------------------------------------- C34
\* C34: whatever sockets connect to a room, close and connect again, the
\* room's document has at most one change-observer of the relay, and no
\* step sends more than one push to a socket.
C34_OneObserverPerRoom ==
    /\ [](\A r \in RoomNames : docs[r].observers <= 1)
    /\ [][\A c \in ConnIds : Len(pushed'[c]) <= Len(pushed[c]) + 1]_vars

\* A socket that reconnected to a room emptied by a close, found the
\* document and its observer, and then received the pushes of two changes.
C34_Witness ==
    \E c1, c2 \in ConnIds :
        /\ conns[c1].status = "closed"
        /\ conns[c2].status = "accepted" /\ conns[c2].room = conns[c1].room
        /\ c1 < c2 /\ conns[c2].foundDoc /\ ~conns[c2].foundRoom
        /\ docs[conns[c2].room].observers = 1
        /\ Len(pushed[c2]) = 2

\* ------------------------------------------------------------------- C35
\* C35: a socket already connected is sent a push only in a step that sets
\* the profile field to a text other than the last one the relay observed;
\* a step that leaves the field as it is (a write to another key of the
\* map) pushes nothing.
C35_PushOnlyOnFieldChange ==
    [][\A c \in ConnIds :
            (conns[c].status = "accepted" /\ pushed'[c] # pushed[c]) =>
                LET r == conns[c].room
                IN /\ docs'[r].field # docs[r].field
                   /\ docs'[r].field # lastProfileJson[r]
      ]_vars

\* An embed socket is open in an observed room whose field parses, and
\* another key of the map has been written since it was pushed the field.
C35_Witness ==
    \E c \in ConnIds :
        /\ conns[c].status = "accepted" /\ conns[c].readyState = OPEN
        /\ roleOf(conns[c].query) = "embed"
        /\ conns[c].room \in observedRooms
        /\ JSONparses(docs[conns[c].room].field)
        /\ Len(pushed[c]) = 1
        /\ docs[conns[c].room].other > 0

\* ------------------------------------------------------------------- C36
\* C36: the document of a Replica that is known stays known for as long as
\* the Replica lives: no step of the sync, the observer, the poll or the
\* push stores an absent value over it.
C36_KnownStaysKnown ==
    [][\A s \in SubIds :
            (subs[s].status = "live" /\ subs'[s].status = "live"
                /\ Truthy(subs[s].profile)) => Truthy(subs'[s].profile)
      ]_vars

\* A live Replica still holds P1 after its poll has fetched from a relay
\* whose field no longer yields a profile and after its observer has seen
\* a field that yields none.
C36_Witness ==
    \E s \in SubIds :
        /\ Registered(s)
        /\ subs[s].profile = "P1"
        /\ ~Truthy(extractProfile(subs[s].field))
        /\ subs[s].pollTimer /\ ~subs[s].fetching
        /\ relayMode[subs[s].relayUrl] = "up"
        /\ ~Truthy(extractProfile(relayField[subs[s].relayUrl][subs[s].room]))
        /\ \E l \in subs[s].listeners : Len(delivered[l]) >= 1

\* ------------------------------------------------------------------- C37
\* C37: with a disk on which no write fails, the cache entry of the room of
\* every registered Replica whose document is known holds that document
\* and names the relay the Replica is bound to as its source.
C37_CacheFollowsReplica ==
    \A s \in SubIds :
        (Registered(s) /\ Truthy(subs[s].profile)
            /\ \A roomId \in Rooms : ~WriteFails(disk[roomId])) =>
                /\ cache[subs[s].room].present
                /\ cache[subs[s].room].profile = subs[s].profile
                /\ cache[subs[s].room].sourceRelay = subs[s].relayUrl

\* ------------------------------------------------------------------- C38
\* C38: a call of an unsubscribe function that has been called before
\* leaves the listener set and the idle deadline of every Replica as they
\* are.
C38_UnsubscribeIdempotent ==
    [][\A l \in Listeners :
            (lst[l].state = "unsubscribed" /\ Unsubscribe(l)) =>
                \A s \in SubIds :
                    /\ subs'[s].listeners = subs[s].listeners
                    /\ subs'[s].idleTimer = subs[s].idleTimer
      ]_vars

\* ------------------------------------------------------------------- C39
\* C39: one viewProfile call invokes onData at most once and onTimeout at
\* most once, and never both of them.
C39_DataOrTimeoutOnce ==
    \A v \in ViewIds :
        /\ Len(views[v].onData) <= 1
        /\ views[v].onTimeout <= 1
        /\ ~(Len(views[v].onData) >= 1 /\ views[v].onTimeout >= 1)

\* ------------------------------------------------------------------- C40
\* C40: from the moment the promise of shareProfile has resolved until the
\* caller invokes the cleanup it was given, the shared document and the
\* connection to the relay are alive.
C40_ShareStaysAlive ==
    \A h \in ShareIds :
        (shares[h].outcome = "resolved" /\ ~shares[h].cleaned) =>
            shares[h].connected /\ shares[h].docLive
====
